--------------------------- MODULE WebRTCManager ---------------------------
(***************************************************************************)
(* The classes WebRTCManager and Connection of util/webrtc_manager.h, one  *)
(* instance per process: the peer connection and the data channel that the *)
(* process holds, what has been applied to them, and the operations and    *)
(* observer callbacks that change them.                                    *)
(*                                                                         *)
(* libwebrtc itself is external.  Its calls are proxies that run on the    *)
(* signaling thread while the caller waits, and its observers run on the   *)
(* signaling thread, so an operation below is one step of the thread that  *)
(* calls it.  What libwebrtc may refuse is listed in Faults.               *)
(*                                                                         *)
(* The operations constrain the variables of this module only, and leave   *)
(* `stat` to the caller where a callback of the owner also sets it.        *)
(***************************************************************************)
EXTENDS Processes

VARIABLES
    stat,               \* how the process is doing, see Status
    peer_connection,    \* the session of the held peer connection, or Null
    sig,                \* the descriptions applied to it, see SigState
    csd,                \* the processes whose CreateOffer or CreateAnswer is outstanding
    remote,             \* the session its remote description belongs to
    added,              \* the sessions of the remote candidates added to it
    gathered,           \* how many local candidates it has reported
    data_channel,       \* the session of the held data channel, or Null
    dcState             \* the state of that data channel

rtcVars == <<stat, peer_connection, sig, csd, remote, added, gathered,
             data_channel, dcState>>

(***************************************************************************)
(* exit: exit(EXIT_FAILURE).  abort: an exception nobody catches.          *)
(* nullderef, uaf: a null, or a freed, pointer was dereferenced.  done:    *)
(* main() returned.                                                        *)
(***************************************************************************)
Status == {"up", "exit", "abort", "nullderef", "uaf", "killed", "done"}

(* none, have-local-offer, have-remote-offer, stable with both applied. *)
SigState == {"none", "local", "remote", "stable"}

RtcTypeOK ==
    /\ stat \in [Nodes -> Status]
    /\ peer_connection \in [Nodes -> Clients \cup {Null}]
    /\ sig \in [Nodes -> SigState]
    /\ csd \subseteq Nodes
    /\ remote \in [Nodes -> Clients \cup {Null}]
    /\ added \in [Nodes -> SUBSET Clients]
    /\ gathered \in [Nodes -> 0..MaxIce]
    /\ data_channel \in [Nodes -> Clients \cup {Null}]
    /\ dcState \in [Nodes -> {"none", "connecting", "open", "closed"}]

(***************************************************************************)
(* The constructor and init(): threads and factory, no peer connection.    *)
(* Without a factory init() exits: such a process never gets here.         *)
(***************************************************************************)
RtcInit ==
    /\ stat = [n \in Nodes |-> "up"]
    /\ peer_connection = [n \in Nodes |-> Null]
    /\ sig = [n \in Nodes |-> "none"]
    /\ csd = {}
    /\ remote = [n \in Nodes |-> Null]
    /\ added = [n \in Nodes |-> {}]
    /\ gathered = [n \in Nodes |-> 0]
    /\ data_channel = [n \in Nodes |-> Null]
    /\ dcState = [n \in Nodes |-> "none"]

Up(n) == stat[n] = "up"

Dies(n, how) == stat' = [stat EXCEPT ![n] = how]

(* The process ends here; what it held is gone with it. *)
DiesAt(n, how) ==
    /\ Dies(n, how)
    /\ UNCHANGED <<peer_connection, sig, csd, remote, added, gathered,
                   data_channel, dcState>>

(* A call through peer_connection. *)
Dereferences(n) ==
    stat' = [stat EXCEPT ![n] = IF peer_connection[n] = Null THEN "nullderef" ELSE @]

-----------------------------------------------------------------------------
(***************************************************************************)
(* create_offer_sdp.  The null check of the code comes after the first use *)
(* of the pointer, so a failed CreatePeerConnection never reaches it; the  *)
(* result of CreateDataChannel is not checked at all.                      *)
(***************************************************************************)
create_offer_sdp(n) ==
    \/ /\ "pc" \in Faults
       /\ DiesAt(n, "nullderef")
    \/ /\ "dc" \in Faults
       /\ peer_connection' = [peer_connection EXCEPT ![n] = n]
       /\ Dies(n, "nullderef")
       /\ UNCHANGED <<sig, csd, remote, added, gathered, data_channel, dcState>>
    \/ /\ peer_connection' = [peer_connection EXCEPT ![n] = n]
       /\ data_channel' = [data_channel EXCEPT ![n] = n]
       /\ dcState' = [dcState EXCEPT ![n] = "connecting"]
       /\ csd' = csd \cup {n}
       /\ UNCHANGED <<stat, sig, remote, added, gathered>>

(* Mutant: a failed CreatePeerConnection returns instead of exiting. *)
create_answer_sdp_returns(n, s) ==
    /\ "pc" \in Faults
    /\ peer_connection' = [peer_connection EXCEPT ![n] = Null]
    /\ UNCHANGED <<stat, sig, csd, remote, added, gathered, data_channel, dcState>>

(***************************************************************************)
(* The new peer connection p, null if there is none, takes the place of    *)
(* the old one, which is released after that and takes its data channel    *)
(* down; data_channel itself keeps the stale reference.                    *)
(***************************************************************************)
Replaces(n, p) ==
    /\ peer_connection' = [peer_connection EXCEPT ![n] = p]
    /\ dcState' = [dcState EXCEPT ![n] = IF data_channel[n] = Null THEN @ ELSE "closed"]
    /\ UNCHANGED data_channel

(***************************************************************************)
(* create_answer_sdp, where it ends the process: no peer connection, or an *)
(* offer that does not parse.  An OnSuccess of the old peer connection may *)
(* come before its release: on_success_csd then uses the pointer that has  *)
(* just been replaced, a null one or one that frees what is read next.     *)
(***************************************************************************)
create_answer_sdp_exits(n, s) ==
    /\ \/ /\ "pc" \in Faults
          /\ Replaces(n, Null)
          /\ Dies(n, "exit") \/ (n \in csd /\ Dies(n, "nullderef"))
       \/ /\ "sdp" \in Faults
          /\ Replaces(n, s)
          /\ Dies(n, "exit") \/ (n \in csd /\ Dies(n, "uaf"))
    /\ csd' = csd \ {n}
    /\ UNCHANGED <<sig, remote, added, gathered>>

(***************************************************************************)
(* create_answer_sdp, where it succeeds: the offer is applied to the new   *)
(* peer connection and an answer requested.                                *)
(***************************************************************************)
create_answer_sdp(n, s) ==
    /\ Replaces(n, s)
    /\ sig' = [sig EXCEPT ![n] = "remote"]
    /\ remote' = [remote EXCEPT ![n] = s]
    /\ csd' = csd \cup {n}
    /\ added' = [added EXCEPT ![n] = {}]
    /\ gathered' = [gathered EXCEPT ![n] = 0]

(* Mutant: the answer is parsed and SetRemoteDescription is not called. *)
push_reply_sdp_unset(n, s) ==
    UNCHANGED rtcVars

(***************************************************************************)
(* push_reply_sdp: the answer is applied if the peer connection awaits     *)
(* one; otherwise SetRemoteDescription fails, which SSDO only logs.        *)
(***************************************************************************)
push_reply_sdp(n, s) ==
    \/ /\ "sdp" \in Faults
       /\ DiesAt(n, "exit")
    \/ /\ Dereferences(n)
       /\ sig' = [sig EXCEPT ![n] = IF @ = "local" THEN "stable" ELSE @]
       /\ remote' = [remote EXCEPT ![n] = IF sig[n] = "local" THEN s ELSE @]
       /\ UNCHANGED <<peer_connection, csd, added, gathered, data_channel, dcState>>

(* Mutant: the candidate is parsed and AddIceCandidate is not called. *)
push_ice_unadded(n, s) ==
    UNCHANGED rtcVars

(***************************************************************************)
(* push_ice: AddIceCandidate refuses a candidate that comes before the     *)
(* remote description; the code ignores the result.  A candidate that does *)
(* not parse ends the process, or is handed over as null and refused too   *)
(* when the parser does not name both the line and the mistake.            *)
(***************************************************************************)
push_ice(n, s) ==
    \/ /\ "ice" \in Faults
       /\ DiesAt(n, "exit")
    \/ /\ "ice" \in Faults
       /\ Dereferences(n)
       /\ UNCHANGED <<peer_connection, sig, csd, remote, added, gathered, data_channel, dcState>>
    \/ /\ Dereferences(n)
       /\ added' = [added EXCEPT ![n] = IF sig[n] \in {"remote", "stable"} THEN @ \cup {s} ELSE @]
       /\ UNCHANGED <<peer_connection, sig, csd, remote, gathered, data_channel, dcState>>

(* Mutant: data_channel is cleared before Close(), whose callback uses it. *)
quit_cleared(n) ==
    /\ stat' = [stat EXCEPT ![n] = IF dcState[n] \in {"connecting", "open"} THEN "nullderef" ELSE @]
    /\ peer_connection' = [peer_connection EXCEPT ![n] = Null]
    /\ data_channel' = [data_channel EXCEPT ![n] = Null]
    /\ sig' = [sig EXCEPT ![n] = "none"]
    /\ csd' = csd \ {n}
    /\ dcState' = [dcState EXCEPT ![n] = "closed"]
    /\ UNCHANGED <<remote, added, gathered>>

(***************************************************************************)
(* quit: Close() ends the data channel, whose state change is reported to  *)
(* DCO while the call lasts and finds data_channel still set; afterwards   *)
(* the observers are not used any more.  Then both pointers are cleared    *)
(* and the threads are stopped.                                            *)
(***************************************************************************)
quit(n) ==
    /\ Dereferences(n)
    /\ peer_connection' = [peer_connection EXCEPT ![n] = Null]
    /\ data_channel' = [data_channel EXCEPT ![n] = Null]
    /\ sig' = [sig EXCEPT ![n] = "none"]
    /\ csd' = csd \ {n}
    /\ dcState' = [dcState EXCEPT ![n] = "closed"]
    /\ UNCHANGED <<remote, added, gathered>>

-----------------------------------------------------------------------------
(***************************************************************************)
(* The observer callbacks, on the signaling thread.  CSDO::OnSuccess: the  *)
(* description becomes the local one, and on_sdp hands it to the owner.    *)
(***************************************************************************)
on_success_csd(n) ==
    /\ n \in csd
    /\ csd' = csd \ {n}
    /\ sig' = [sig EXCEPT ![n] = IF @ = "remote" THEN "stable" ELSE "local"]
    /\ UNCHANGED <<peer_connection, remote, added, gathered, data_channel, dcState>>

(* CSDO::OnFailure: a line of log and nothing else. *)
on_failure_csd(n) ==
    /\ "csd" \in Faults
    /\ n \in csd
    /\ csd' = csd \ {n}
    /\ UNCHANGED <<stat, peer_connection, sig, remote, added, gathered, data_channel, dcState>>

(* PCO::OnIceCandidate: gathering starts with the local description. *)
on_ice_candidate(n) ==
    /\ sig[n] \in {"local", "stable"}
    /\ gathered[n] < MaxIce
    /\ gathered' = [gathered EXCEPT ![n] = @ + 1]
    /\ UNCHANGED <<peer_connection, sig, csd, remote, added, data_channel, dcState>>

(* PCO::OnDataChannel: the answerer takes the channel that the offerer made. *)
OnDataChannel(n) ==
    /\ data_channel' = [data_channel EXCEPT ![n] = peer_connection[n]]
    /\ dcState' = [dcState EXCEPT ![n] = "connecting"]
    /\ UNCHANGED <<stat, peer_connection, sig, csd, remote, added, gathered>>

(***************************************************************************)
(* DCO::OnStateChange: the held channel is now in state new.  When that is *)
(* kOpen the code calls on_success, which is left to the owner; any other  *)
(* state is only logged.                                                   *)
(***************************************************************************)
on_state_change(n, new) ==
    /\ dcState' = [dcState EXCEPT ![n] = new]
    /\ UNCHANGED <<peer_connection, sig, csd, remote, added, gathered, data_channel>>
=============================================================================
