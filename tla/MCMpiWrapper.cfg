CONSTANTS
  NRanks = 3
  MaxEvents = 4
  Scripts <- MCScripts
SPECIFICATION Spec
INVARIANTS
  TypeOK
  EventsAreAccountedFor
  BenchmarkIsComplete
  WhatEndsAScript
