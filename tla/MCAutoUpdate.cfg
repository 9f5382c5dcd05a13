\* Two lost boots or failing file operations, one outage or intervention.
\* A process cut off between two renames leaves nothing to start: it stops.
CONSTANTS
  Version <- MCVersion
  MaxMishaps = 2
  MaxBreaks = 1
SPECIFICATION UpdateSpec
INVARIANTS  BinarySound
 
CHECK_DEADLOCK FALSE
