------------------------------- MODULE MCHosts -------------------------------
\* Small instances of Hosts: a session left by an earlier adapter and a new one.
EXTENDS Hosts
CONSTANTS a, b
MCSessions == {a, b}
MCOld == {a}
=============================================================================
