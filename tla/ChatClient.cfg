\* Two channels, two requests of the user at once, three connections.
SPECIFICATION Spec
CONSTANTS
  Channel = {c1, c2}
  MaxAsks = 2
  MaxSockets = 3
SYMMETRY Symmetry
INVARIANTS
  TypeOK
  OneConnection
  OnlyItsMessages
  ActiveIsListed
  OnlyAdmittedChannels
  StrayMembersAreLate
