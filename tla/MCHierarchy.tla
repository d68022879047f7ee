---------------------------- MODULE MCHierarchy ----------------------------
EXTENDS Hierarchy

CONSTANTS a, b, c, sensor, d1

(* The root, a group in it, and two groups in that.                        *)
GroupPaths == {<<>>, <<a>>, <<a, b>>, <<a, c>>}
DeviceChannels == {<<d1, sensor>>}
=============================================================================
