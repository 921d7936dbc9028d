---------------------------- MODULE MCWebSurface ----------------------------
(* Names the actions of the instance of WebSurface that TLC checks. *)
EXTENDS WebSurface

CONSTANTS a1, a2
=============================================================================
