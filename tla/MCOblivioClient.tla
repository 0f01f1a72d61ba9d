------------------------- MODULE MCOblivioClient -------------------------
(* Who keeps the pin where: every client object has a file of its own, or  *)
(* all of them share one, as the handler threads of app.py do.             *)
EXTENDS OblivioClient

OwnFile == [c \in Clients |-> c]
==========================================================================
