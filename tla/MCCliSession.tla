---------------------------- MODULE MCCliSession ----------------------------
(* Instances of CliSession for TLC.                                        *)
EXTENDS CliSession

CONSTANTS
    zero,            \* the one exit code
    MaxEvents        \* bound: lines and host messages together

\* Every mix of stdout lines, stderr lines and host messages, few of each; a
\* stderr line counts twice, and a stdin pipe that is full or closed once.
Budget ==
    Len(printed) + 2 * logged + Len(accepted) + fakes
      + (IF stdinPipe = "room" THEN 0 ELSE 1) <= MaxEvents
=============================================================================
