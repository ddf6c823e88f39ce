---------------------------- MODULE MCDeviceTree ----------------------------
(* DeviceTree with small trees *)
EXTENDS DeviceTree

\* One hart, two harts, a hart without a supervisor mode, and none with one
SomeRoutes == {<<11, 9>>, <<11, 11, 9>>, <<11, 9, 11, 9>>, <<9>>, <<11>>}
=============================================================================
