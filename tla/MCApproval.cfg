\* Three blocked threads and one asynchronous caller.
CONSTANTS
  s1 = s1
  s2 = s2
  s3 = s3
  a1 = a1
  d1 = d1
  d2 = d2
  Sync = {s1, s2, s3}
  Async = {a1}
  Device = {d1, d2}
  NoDevice = NoDevice
  NoRequest = NoRequest
  DeviceOf <- MCDeviceOf
SPECIFICATION Spec
INVARIANTS AdmittedWithCause WokenWithVerdict DialogIsAnswerable
PROPERTIES RememberedBeforeWoken
PROPERTIES ImplementsGate WaitersReturn
