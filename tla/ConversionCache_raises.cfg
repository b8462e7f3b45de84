\* The docstring of materialize_target_format, with one caller.
SPECIFICATION CacheSpec
CONSTANTS
  Requests = {r1}
  NoRequest = NoRequest
INVARIANT ImpossibleRaises
