---------------------------- MODULE AtomicInstall ----------------------------
(***************************************************************************)
(* What an installation of the mihomo core promises its user, whatever     *)
(* files the daemon writes on the way: the accepted core and the release   *)
(* channel recorded in the settings change together and at once.  A crash  *)
(* or a failed recovery may leave no core accepted; then only a            *)
(* reinstallation in the recorded channel accepts one again.               *)
(***************************************************************************)
CONSTANTS
  Channels,   \* the release channels, "stable" and "alpha" in the code
  Cores,      \* the released cores, each with the channel it belongs to
  NoCore,     \* no core is installed
  Unknown     \* no core is accepted: a reinstallation is required

VARIABLES
  channel,    \* the accepted channel
  core        \* the accepted core, or Unknown

vars == <<channel, core>>

\* A core of the accepted channel.
Released(c, ch) == c \in Cores /\ c.channel = ch

Init == channel \in Channels /\ (core = NoCore \/ Released(core, channel))

\* An update commits: the new core and its channel are accepted together.
Install == /\ core # Unknown
           /\ channel' \in Channels
           /\ Released(core', channel')

\* An update or a reinstallation is interrupted, or one supersedes the other.
Interrupt == core' = Unknown /\ UNCHANGED channel

\* An explicit reinstallation commits; it never switches the channel.
Reinstall == /\ core = Unknown
             /\ Released(core', channel')
             /\ UNCHANGED channel

Next == Install \/ Interrupt \/ Reinstall

Spec == Init /\ [][Next]_vars
=============================================================================
