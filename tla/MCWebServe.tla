----------------------------- MODULE MCWebServe -----------------------------
(***************************************************************************)
(* A small instance of WebServe for TLC.                                   *)
(***************************************************************************)
EXTENDS WebServe

MCUploads == {"u1", "u2"}
MCPages == {"p1"}

\* Two uploads that overtake each other; a page that refetches while the
\* pipeline publishes; and a page that refetches across an upload.
MCLoads ==
  {[uploads |-> {"u1", "u2"}, pages |-> {}, publish |-> 1],
   [uploads |-> {}, pages |-> {"p1"}, publish |-> 3],
   [uploads |-> {"u1"}, pages |-> {"p1"}, publish |-> 1]}

\* The two uploads alone.
MCUploadLoads == {l \in MCLoads : l.pages = {}}
=============================================================================
