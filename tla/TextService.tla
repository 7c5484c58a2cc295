----------------------------- MODULE TextService -----------------------------
(***************************************************************************)
(* What the service promises a client that asks for a complete answer:     *)
(* either the request is refused, or text is generated for it, token by    *)
(* token, and the answer is the whole text, once it has ended.  There are  *)
(* no threads, ids, queues or batches here; InferFlowService implements    *)
(* this specification.                                                     *)
(***************************************************************************)
EXTENDS Naturals, Sequences

CONSTANTS
  Requests,   (* who asks                                                  *)
  Positions,  (* where a token stands in its text                          *)
  Shown(_)    (* the part of a text a client can be shown                  *)

VARIABLES
  text,   (* per request: the tokens generated so far, each by its position *)
  over,   (* the requests whose text is complete                            *)
  reply   (* per request: the answer                                        *)

textVars == <<text, over, reply>>

NoReply == [ret |-> "none", text |-> <<>>]

TextInit ==
  /\ text = [r \in Requests |-> <<>>]
  /\ over = {}
  /\ reply = [r \in Requests |-> NoReply]

Refuse(r) ==
  /\ reply[r] = NoReply /\ text[r] = <<>> /\ r \notin over
  /\ \E why \in {"error.busy", "error.empty_request"} :
       reply' = [reply EXCEPT ![r] = [ret |-> why, text |-> <<>>]]
  /\ UNCHANGED <<text, over>>

(* A token is generated only once: positions increase.                      *)
Generate(r) ==
  /\ r \notin over /\ reply[r] = NoReply
  /\ \E p \in Positions :
       /\ \A i \in DOMAIN text[r] : text[r][i] < p
       /\ text' = [text EXCEPT ![r] = Append(@, p)]
  /\ UNCHANGED <<over, reply>>

End(r) ==
  /\ r \notin over /\ reply[r] = NoReply
  /\ over' = over \cup {r}
  /\ UNCHANGED <<text, reply>>

Answer(r) ==
  /\ r \in over /\ reply[r] = NoReply
  /\ reply' = [reply EXCEPT ![r] = [ret |-> "succ", text |-> Shown(text[r])]]
  /\ UNCHANGED <<text, over>>

TextNext == \E r \in Requests : Refuse(r) \/ Generate(r) \/ End(r) \/ Answer(r)

TextSpec == TextInit /\ [][TextNext]_textVars
=============================================================================
