SPECIFICATION Spec
CONSTANTS
  s1 = s1 s2 = s2 b1 = b1 b2 = b2 b3 = b3 d1 = d1 ta = ta tb = tb tc = tc p1 = p1
  none = none
  Servers = {s1, s2}
  Jobs = {b1}
  Devices = {d1}
  Targets = {ta}
  Projects = {p1}
  NoDevice = none
  NoTarget = none
  NoJob = none
  NoServer = none
  DeviceOf <- MCDeviceOf
  TargetOf <- MCTargetOf
  ProjectOf <- MCProjectOf
CHECK_DEADLOCK FALSE
PROPERTIES CancellationKept WorkerLostIsFinal LostJobNotReported LifecycleSpec
