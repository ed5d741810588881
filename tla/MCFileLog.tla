----------------------------- MODULE MCFileLog ------------------------------
(* An instance of FileLog for TLC by itself: a log that is not daily.        *)
EXTENDS FileLog
=============================================================================
