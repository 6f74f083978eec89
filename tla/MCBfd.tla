------------------------------- MODULE MCBfd -------------------------------
EXTENDS Bfd

\* Two Echo sessions that share an address; a session with both detectors.
MCSetups == {{Echo(1), Echo(2)}, {Echo(1), Ctrl(1)}}
=============================================================================
