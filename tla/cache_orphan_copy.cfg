SPECIFICATION Spec
CONSTANTS
  app = app
  lib = lib
  k1 = k1
  k2 = k2
  warmLib = warmLib
  getApp = getApp
  getLib = getLib
  getLib2 = getLib2
  Paths = {app, lib}
  Refs <- MCRefs
  Conns = {k1, k2}
  Tasks = {warmLib, getApp, getLib2}
  ConnOf <- MCConnOf
  PathOf <- MCPathOf
  Prewarms = {warmLib}
  MaxFills = 1
  MaxLosses = 1
  MaxRestarts = 0
INVARIANT CopiesWithinLimit
CHECK_DEADLOCK FALSE
