----------------------------- MODULE MCStartup ------------------------------
(* Two views, every way to write either, and a setting that is refused.      *)
EXTENDS Startup

CONSTANTS v1, v2

MCView == {v1, v2}
MCSettings == [form : Form, view : MCView, valid : BOOLEAN]
=============================================================================
