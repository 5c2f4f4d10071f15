------------------------------ MODULE Server ------------------------------
(***************************************************************************)
(* The MCU server (zonekey_mcu/Server.cpp): the list of conferences, the   *)
(* commands that clients send over XMPP, each with a token that must be    *)
(* responded to, and the loop of Server::run.                              *)
(*                                                                         *)
(* Every command but get_version and sys_info, and each half of the loop   *)
(* of Server::run, holds cs_conferences_ from beginning to end, so each is *)
(* one step.  The exception is fc.list_sources, whose loop never ends when *)
(* there is a source: the command then keeps the mutex for ever (variable  *)
(* stuck).                                                                 *)
(*                                                                         *)
(* Of a conference only what the server looks at is kept: how many sources *)
(* and streams it has, idle_ and the tokens of reg_notify.  Module         *)
(* Conference has the rest.  next_id_ does not wrap within the bound, so a *)
(* conference is its cid and the order of conferences_ is immaterial.      *)
(* A command that fails an assertion inside a conference ends the process: *)
(* behaviours may stop at any step, and safety does not depend on it.      *)
(* Which of the commands that take the mutex a client sent, and to which   *)
(* conference, is decided when the command is handled.                     *)
(***************************************************************************)
EXTENDS Naturals, FiniteSets

CONSTANTS
  Requests,    \* commands with their tokens
  cap_max,     \* licence: the most conferences at a time
  MaxId,       \* bound on next_id_ (0x7f000000 in the code)
  MaxMembers   \* bound on the sources, and on the streams, of a conference

ASSUME BoundsAssumption == cap_max \in Nat /\ MaxId \in Nat /\ MaxMembers \in Nat

VARIABLES
  conferences,  \* the cids of conferences_
  next_id,      \* next_id_
  sources, streams,  \* sources[c], streams[c]: sizes of sources_ and streams_
  idle,         \* the conferences whose idle_ is set
  tokens,       \* tokens[c]: reg_notify_tokens_ of conference c
  req,          \* req[r]: "new"; "sent", or "query" if it needs no mutex;
                \* "held" by reg_notify; or "done"
  answers,      \* answers[r]: responses sent to the token of r
  srv,          \* what Server::run does next: "run_once" or "reap"
  stuck         \* the request whose handler never returns, if any

vars == <<conferences, next_id, sources, streams, idle, tokens, req, answers, srv,
          stuck>>

Cids == 1 .. MaxId
members == <<sources, streams>>
clients == <<req, answers>>

TypeOK ==
  /\ conferences \in SUBSET Cids
  /\ next_id \in 1 .. MaxId + 1
  /\ sources \in [Cids -> 0 .. MaxMembers]
  /\ streams \in [Cids -> 0 .. MaxMembers]
  /\ idle \in SUBSET Cids
  /\ tokens \in [Cids -> SUBSET Requests]
  /\ req \in [Requests -> {"new", "sent", "query", "held", "done"}]
  /\ answers \in [Requests -> Nat]
  /\ srv \in {"run_once", "reap"}
  /\ stuck \in SUBSET Requests

Init ==
  /\ conferences = {}
  /\ next_id = 1
  /\ sources = [c \in Cids |-> 0]
  /\ streams = [c \in Cids |-> 0]
  /\ idle = {}
  /\ tokens = [c \in Cids |-> {}]
  /\ req = [r \in Requests |-> "new"]
  /\ answers = [r \in Requests |-> 0]
  /\ srv = "run_once"
  /\ stuck = {}

-----------------------------------------------------------------------------
(* A client sends a command. *)
send(r) ==
  /\ req[r] = "new"
  /\ \E s \in {"sent", "query"} : req' = [req EXCEPT ![r] = s]
  /\ UNCHANGED <<conferences, next_id, members, idle, tokens, answers, srv, stuck>>

(* The handler of r has cs_conferences_. *)
Handling(r) == req[r] = "sent" /\ stuck = {}

(* zkrbt_mse_respond for every token of T. *)
Respond(T) ==
  /\ req' = [r \in Requests |-> IF r \in T THEN "done" ELSE req[r]]
  /\ answers' = [r \in Requests |-> IF r \in T THEN answers[r] + 1 ELSE answers[r]]

(* The licence test off by one. *)
Room_off_by_one == Cardinality(conferences) <= cap_max

(* The licence allows one more conference. *)
Room == Cardinality(conferences) < cap_max

create_conference(r) ==
  /\ Handling(r)
  /\ Room
  /\ next_id <= MaxId
  /\ conferences' = conferences \cup {next_id}
  /\ next_id' = next_id + 1
  /\ Respond({r})
  /\ UNCHANGED <<members, idle, tokens, srv, stuck>>

(* get_version, sys_info or an unknown command. *)
query(r) ==
  /\ req[r] = "query"
  /\ Respond({r})
  /\ UNCHANGED <<conferences, next_id, members, idle, tokens, srv, stuck>>

(* A command that changes nothing here: it fails (no such cid, too many    *)
(* conferences, a parameter that is missing or wrong), only reads, or      *)
(* works inside its conference.                                            *)
other_command(r) ==
  /\ Handling(r)
  /\ Respond({r})
  /\ UNCHANGED <<conferences, next_id, members, idle, tokens, srv, stuck>>

(* ~Conference without its loop over reg_notify_tokens_. *)
FinalResponses_none(C) == {}

(* The tokens that ~Conference responds to, with "err", in conferences C. *)
FinalResponses(C) == UNION {tokens[c] : c \in C}

(* The conferences C are deleted, with all they hold. *)
Delete(C) ==
  /\ conferences' = conferences \ C
  /\ sources' = [c \in Cids |-> IF c \in C THEN 0 ELSE sources[c]]
  /\ streams' = [c \in Cids |-> IF c \in C THEN 0 ELSE streams[c]]
  /\ idle' = idle \ C
  /\ tokens' = [c \in Cids |-> IF c \in C THEN {} ELSE tokens[c]]

destroy_conference(r, c) ==
  /\ Handling(r)
  /\ Delete({c})
  /\ Respond({r} \cup FinalResponses({c}))
  /\ UNCHANGED <<next_id, srv, stuck>>

(* A command changes the sources and streams of c.  The waiting tokens are *)
(* not looked at.                                                          *)
MembersChange(r, c) ==
  /\ Handling(r)
  /\ Respond({r})
  /\ UNCHANGED <<conferences, next_id, idle, tokens, srv, stuck>>

add_source(r, c) ==
  /\ sources[c] < MaxMembers
  /\ sources' = [sources EXCEPT ![c] = @ + 1]
  /\ MembersChange(r, c) /\ UNCHANGED streams

del_source(r, c) ==
  /\ sources[c] > 0
  /\ sources' = [sources EXCEPT ![c] = @ - 1]
  /\ MembersChange(r, c) /\ UNCHANGED streams

add_stream(r, c) ==
  /\ streams[c] < MaxMembers
  /\ streams' = [streams EXCEPT ![c] = @ + 1]
  /\ MembersChange(r, c) /\ UNCHANGED sources

del_stream(r, c) ==
  /\ streams[c] > 0
  /\ streams' = [streams EXCEPT ![c] = @ - 1]
  /\ MembersChange(r, c) /\ UNCHANGED sources

(* reg_notify responding at once, as the other commands do. *)
reg_notify_responds(r, c) ==
  /\ Handling(r)
  /\ tokens' = [tokens EXCEPT ![c] = @ \cup {r}]
  /\ Respond({r})
  /\ UNCHANGED <<conferences, next_id, members, idle, srv, stuck>>

(* reg_notify keeps the token; nothing is sent to the client yet. *)
reg_notify(r, c) ==
  /\ Handling(r)
  /\ tokens' = [tokens EXCEPT ![c] = @ \cup {r}]
  /\ req' = [req EXCEPT ![r] = "held"]
  /\ UNCHANGED <<conferences, next_id, members, idle, answers, srv, stuck>>

(* fc.list_sources: the loop over the list advances another iterator, so   *)
(* it ends only when the list is empty.                                    *)
fc_list_sources(r, c) ==
  /\ Handling(r)
  /\ IF sources[c] = 0 THEN Respond({r}) /\ UNCHANGED stuck
     ELSE stuck' = {r} /\ UNCHANGED clients
  /\ UNCHANGED <<conferences, next_id, members, idle, tokens, srv>>

(* The handler goes round its loop once more. *)
spins == stuck # {} /\ UNCHANGED vars

(* Whatever the client of r asked for. *)
command(r) ==
  \/ query(r)
  \/ create_conference(r)
  \/ other_command(r)
  \/ \E c \in conferences :
       \/ destroy_conference(r, c)
       \/ add_source(r, c)
       \/ del_source(r, c)
       \/ add_stream(r, c)
       \/ del_stream(r, c)
       \/ reg_notify(r, c)
       \/ fc_list_sources(r, c)

-----------------------------------------------------------------------------
(* Server::run, first half: run_once of every conference.  Sources and     *)
(* streams found dead go; idle_ is set in those that counted neither and   *)
(* have had neither for 120 s, here some of them.                          *)
run_once ==
  /\ srv = "run_once" /\ stuck = {}
  /\ srv' = "reap"
  /\ sources' \in [Cids -> 0 .. MaxMembers]
  /\ streams' \in [Cids -> 0 .. MaxMembers]
  /\ \A c \in Cids : sources'[c] <= sources[c] /\ streams'[c] <= streams[c]
  /\ \E I \in SUBSET {c \in conferences : sources[c] = 0 /\ streams[c] = 0} :
       idle' = idle \cup I
  /\ UNCHANGED <<conferences, next_id, tokens, clients, stuck>>

(* Second half: func_idle deletes the conferences whose idle_ is set. *)
reap ==
  /\ srv = "reap" /\ stuck = {}
  /\ srv' = "run_once"
  /\ Delete(idle)
  /\ Respond(FinalResponses(idle))
  /\ UNCHANGED <<next_id, stuck>>

Next ==
  \/ \E r \in Requests : send(r) \/ command(r)
  \/ run_once
  \/ reap
  \/ spins

Spec == Init /\ [][Next]_vars

(* The XMPP thread handles what it receives and Server::run loops for ever. *)
FairSpec ==
  /\ Spec
  /\ \A r \in Requests : WF_vars(command(r))
  /\ WF_vars(run_once) /\ WF_vars(reap)

-----------------------------------------------------------------------------
(* The licence is respected: at no time more than cap_max conferences. *)
CapRespected == Cardinality(conferences) <= cap_max

(* Conference.cpp:31: a token is responded to exactly once, or it waits in *)
(* a conference that exists: no conference, however it is deleted, takes a *)
(* token with it (the XMPP library would leak it), and none is responded   *)
(* to again (the library has freed it).                                    *)
TokensKept ==
  /\ \A r \in Requests : answers[r] = (IF req[r] = "done" THEN 1 ELSE 0)
  /\ \A r \in Requests : req[r] = "held" <=> \E c \in conferences : r \in tokens[c]
  /\ \A c, d \in Cids : c # d => tokens[c] \cap tokens[d] = {}

(* The inductive invariant of the server: only the conferences on the list *)
(* hold tokens, members or an idle_ that is set (and that only until the   *)
(* reaper), their cids have been handed out, and a handler that never      *)
(* returns has not responded.                                              *)
Inductive ==
  /\ TypeOK
  /\ TokensKept
  /\ CapRespected
  /\ \A c \in Cids \ conferences : tokens[c] = {} /\ sources[c] = 0 /\ streams[c] = 0
  /\ idle \subseteq conferences
  /\ srv = "run_once" => idle = {}
  /\ \A c \in conferences : c < next_id
  /\ \A r \in stuck : req[r] = "sent"

Tokens == INSTANCE TokenService
            WITH owed <- {r \in Requests : req[r] \in {"sent", "query", "held"}}

(* Conference.cpp:31: the server implements TokenService: from the moment  *)
(* a command is sent its token is owed, whether it waits for the mutex or  *)
(* in a conference, and no step responds to a token that is not.           *)
ServesTokens == Tokens!Spec

(* Cids are handed out in their order, once each. *)
State(c) == IF c \in conferences THEN "up" ELSE IF c < next_id THEN "gone" ELSE "none"

Life(c) == INSTANCE ConferenceLife
             WITH state <- State(c), sources <- sources[c], streams <- streams[c],
                  idle <- c \in idle

(* Server.cpp:72: each conference on the list, and each cid before and     *)
(* after, lives as ConferenceLife says: nothing that happens to the others *)
(* touches it, and none comes back.                                        *)
ConferencesLive == \A c \in Cids : Life(c)!Spec

(* A command other than a reg_notify that is kept gets its response. *)
EveryCommandAnswered ==
  \A r \in Requests : req[r] \in {"sent", "query"} ~> req[r] \in {"held", "done"}
=============================================================================
