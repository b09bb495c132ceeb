\* Partition lengths at the FAT16 range VfatFormat gives Fat16Format and at the
\* cluster-size and 0x10000-sector boundaries of the code.
CONSTANTS
    PartitionLengths = {4300800, 16776704, 16777216, 33554432, 134217216,
                        268435456, 536870400}
    BytesPerSectorValues = {512, 1024}
    ClusterSizes = {0, 4096, 32768}
SPECIFICATION Spec
CHECK_DEADLOCK FALSE
INVARIANT FormatLayout
INVARIANT VolumeGeometry
INVARIANT HeapBalanced
