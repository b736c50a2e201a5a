------------------------------ MODULE MCProcess ------------------------------
(* Process for TLC.  By default every signal but SIGCHLD kills, so that one  *)
(* signal programs can send is enough; SIGHUP is also sent by kill_session.  *)
EXTENDS Process

OnlyHangup == {SIGHUP}
OnlyKill == {SIGKILL}
=============================================================================
