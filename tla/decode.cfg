SPECIFICATION Spec
CONSTANTS
  Offsets = {0, 12, 4092, 4096, 28672, 32764, 32768, 36860, 36864, 65532, 65536,
    69628, 69632, 73724, 73728, 77820, 77824, 81916, 81920, 1048572}
  Words = {0, 1}
INVARIANTS TypeOK RoutedByMap AddressRestored LoadsLastStore
