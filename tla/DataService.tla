----------------------------- MODULE DataService -----------------------------
(***************************************************************************)
(* The service nodes transfer tensors with                                 *)
(* (burn-communication/src/data_service.rs).  A node exposes a tensor      *)
(* under a transfer id, for a number of downloads; others download it by   *)
(* asking for the id over a connection per pair of nodes.  A request that  *)
(* comes before the tensor waits for a notification.                       *)
(***************************************************************************)
EXTENDS GlobalTopology

VARIABLES exposed,  \* exposed[s]: the exposed tensors of node s, by id
          upload,   \* upload[s]: the call of expose of node s
          request   \* request[c][s]: the request of node c at node s

dataVars == <<exposed, upload, request>>

NoUpload == [phase |-> "none"]
NoRequest == [phase |-> "none"]

Upload(id, tensor, max) ==
    [phase |-> "insert", id |-> id, tensor |-> tensor, max |-> max]

Asked(id) == [phase |-> "check", id |-> id]

InitData ==
    /\ exposed = [s \in Nodes |-> <<>>]
    /\ upload = [s \in Nodes |-> NoUpload]
    /\ request = [c \in Nodes |-> [s \in Nodes |-> NoRequest]]

(* Exposing inserts the tensor with the table locked (an entry of the same *)
(* id is lost) ...                                                         *)
Insert(s) ==
    /\ upload[s].phase = "insert"
    /\ LET u == upload[s]
           entry == [tensor |-> u.tensor, max |-> u.max, count |-> 0]
       IN  exposed' = [exposed EXCEPT ![s] =
                          [i \in DOMAIN @ \cup {u.id} |-> IF i = u.id THEN entry ELSE @[i]]]
    /\ upload' = [upload EXCEPT ![s].phase = "notify"]
    /\ UNCHANGED request

(* ... and then wakes up the requests that are waiting at that moment. *)
NotifyTensor(s) ==
    /\ upload[s].phase = "notify"
    /\ upload' = [upload EXCEPT ![s] = NoUpload]
    /\ request' = [c \in Nodes |->
                     IF request[c][s].phase = "wait"
                     THEN [request[c] EXCEPT ![s].phase = "check"]
                     ELSE request[c]]
    /\ UNCHANGED exposed

(* Mutant of Taken: the count is compared before it is increased. *)
Taken_CountsLate(table, i) ==
    IF table[i].count = table[i].max
    THEN [j \in DOMAIN table \ {i} |-> table[j]]
    ELSE [table EXCEPT ![i].count = @ + 1]

(* The table after one more download of tensor i: the last one takes it. *)
Taken(table, i) ==
    IF table[i].count + 1 = table[i].max
    THEN [j \in DOMAIN table \ {i} |-> table[j]]
    ELSE [table EXCEPT ![i].count = @ + 1]

(* A request finds its tensor ... *)
Serve(c, s) ==
    /\ request[c][s].phase = "check"
    /\ request[c][s].id \in DOMAIN exposed[s]
    /\ LET i == request[c][s].id
       IN  /\ request' = [request EXCEPT ![c][s] =
                             [phase |-> "reply", tensor |-> exposed[s][i].tensor]]
           /\ exposed' = [exposed EXCEPT ![s] = Taken(@, i)]
    /\ UNCHANGED upload

(* ... or not: it unlocks the table, ... *)
Miss(c, s) ==
    /\ request[c][s].phase = "check"
    /\ request[c][s].id \notin DOMAIN exposed[s]
    /\ request' = [request EXCEPT ![c][s].phase = "missed"]
    /\ UNCHANGED <<exposed, upload>>

(* ... and only then asks for notifications. *)
Await(c, s) ==
    /\ request[c][s].phase = "missed"
    /\ request' = [request EXCEPT ![c][s].phase = "wait"]
    /\ UNCHANGED <<exposed, upload>>

DataStep ==
    \E s \in Nodes :
        \/ Insert(s)
        \/ NotifyTensor(s)
        \/ \E c \in Nodes : Serve(c, s) \/ Miss(c, s) \/ Await(c, s)
=============================================================================
