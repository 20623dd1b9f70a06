SPECIFICATION Spec
CONSTANT Streams <- MCLongForeign
INVARIANT ForeignRefused
