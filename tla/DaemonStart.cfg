SPECIFICATION DaemonSpec
CONSTANTS
  Pids = {p1, p2, p3}
  Ports = {x1, x2}
  Absent = Absent
SYMMETRY Symmetry
INVARIANTS PidFileNamesTheDaemon PortIsLostToALeaverOnly StrangersAreSpared
