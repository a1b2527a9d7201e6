------------------------------ MODULE Catalogue ------------------------------
(***************************************************************************)
(* What a desk of the admin panel promises about the documents it looks    *)
(* after, whatever happens between a press and its answer: a press asks    *)
(* for one change of one document, the change is made once or not at all,  *)
(* and nothing else changes a document.  One that was deleted is never     *)
(* stored again.                                                           *)
(***************************************************************************)
CONSTANTS Keys,   \* the documents
          Taps,   \* the presses of the admin
          Looks   \* what a document can hold

VARIABLES
    shelf,    \* each document: "none", "stored" or "deleted", and its look
    request   \* each press: not made yet, open with what it asks for, closed

catalogueVars == <<shelf, request>>

Kinds    == {"delete", "update", "add"}
Requests == [kind: Kinds, key: Keys, look: Looks]
Free     == [kind |-> "free"]
Closed   == [kind |-> "closed"]

Init ==
    /\ shelf \in [Keys -> [state: {"none", "stored"}, look: Looks]]
    /\ request = [t \in Taps |-> Free]

Ask(t) ==
    /\ request[t] = Free
    /\ \E r \in Requests : request' = [request EXCEPT ![t] = r]
    /\ UNCHANGED shelf

(* The document after the change a request asks for; only a stored one can *)
(* be updated, and only a new one added.                                   *)
Changed(doc, r) ==
    CASE r.kind = "delete" -> [state |-> "deleted", look |-> doc.look]
      [] r.kind = "update" /\ doc.state = "stored"
           -> [state |-> "stored", look |-> r.look]
      [] r.kind = "add" /\ doc.state = "none"
           -> [state |-> "stored", look |-> r.look]
      [] OTHER -> doc

Commit(t) ==
    /\ request[t].kind \in Kinds
    /\ shelf' = [shelf EXCEPT ![request[t].key] = Changed(@, request[t])]
    /\ request' = [request EXCEPT ![t] = Closed]

(* A press is given up, or at the end of the process several are.  *)
GiveUp ==
    /\ \E T \in SUBSET {t \in Taps : request[t].kind \in Kinds} :
          request' = [t \in Taps |-> IF t \in T THEN Closed ELSE request[t]]
    /\ UNCHANGED shelf

Next == GiveUp \/ \E t \in Taps : Ask(t) \/ Commit(t)

Spec == Init /\ [][Next]_catalogueVars
=============================================================================
