CONSTANTS
    UniqueId <- MCUniqueId
    Lifetimes <- MCLifetimes
SPECIFICATION Spec
PROPERTY FilterSpec
