-------------------------- MODULE MCPodsController --------------------------
\* PodsController for TLC: a node with one pod of the API server, or one with
\* two static pods of one full name.
EXTENDS PodsController, TLC

CONSTANTS p, s, t

OneApiPod == {p}
TwoStaticPods == {s, t}
Either == {{p}, {s, t}}
OnlyApi == {{p}}
=============================================================================
