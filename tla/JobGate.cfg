\* An unrestricted pool of three workers with caps, as server.go wires it.
SPECIFICATION Spec
CONSTANTS
  video = video
  gif = gif
  text = text
  w1 = w1
  w2 = w2
  w3 = w3
  NULL = NULL
  Workers = {w1, w2, w3}
  Types = {video, gif, text}
  Registered = {video, gif, text}
  PoolTypes = {}
  TypeConcurrency <- MCTypeConcurrency
INVARIANTS
  TypeOK
  CapRespected
  CounterExact
PROPERTIES
  NeverWedged
