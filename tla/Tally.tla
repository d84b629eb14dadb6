-------------------------------- MODULE Tally -------------------------------
(***************************************************************************)
(* Counting requests.  A frame has a field id: the number of the request,  *)
(* or 0 for the frames that a client makes itself.  A wire holds the       *)
(* frames sent on each connection.                                         *)
(***************************************************************************)
EXTENDS Naturals, Sequences, FiniteSets

\* The requests in a sequence of frames.
Ids(s) == {s[i].id : i \in DOMAIN s} \ {0}

\* Where a request was sent, and how often.
Places(wire, id) ==
    {kn \in UNION {{k} \X DOMAIN wire[k] : k \in DOMAIN wire} :
        wire[kn[1]][kn[2]].id = id}

Times(wire, id) == Cardinality(Places(wire, id))
=============================================================================
