---------------------------- MODULE MediaGroupInv ----------------------------
(***************************************************************************)
(* The inductive invariant behind the safety properties of MediaGroup.     *)
(***************************************************************************)
EXTENDS MediaGroup

\* A goroutine has a group from the moment it leads or finds one, and copies
\* nothing before it relays.
Reference(m) ==
  /\ pc[m] \in {"publish", "join", "wait", "late"} => ref[m] # 0
  /\ pc[m] \in {"start", "find"} => ref[m] = 0
  /\ pc[m] \notin {"link", "done"} => sent[m] = <<>>

\* A message is in one group at most, once, and was put there by its own
\* goroutine.
Members ==
  \A i \in DOMAIN groups :
    /\ IsInjective(groups[i].messages)
    /\ \A m \in ToSet(groups[i].messages) :
         ref[m] = i /\ pc[m] \in {"wait", "relay", "link", "done"}

\* The goroutine relays its group, will relay it, or has.  A goroutine that
\* joined a group late never does.
Leads(m) ==
  /\ ref[m] # 0
  /\ pc[m] \in {"publish", "join", "wait", "relay", "link"} \/ sent[m] # <<>>

OneLeader == \A a, b \in Msgs : Leads(a) /\ Leads(b) /\ ref[a] = ref[b] => a = b

\* What was copied is the message itself, or is in the group still, which may
\* have grown at its end while the copies were on their way.
Copied(m) ==
  /\ sent[m] # <<>> =>
       IF ref[m] = 0 THEN sent[m] = <<m>>
                     ELSE ToSet(sent[m]) \subseteq ToSet(groups[ref[m]].messages)
  /\ IsInjective(sent[m])
  /\ pc[m] = "link" => /\ Len(sent[m]) <= Len(Album(m))
                       /\ \A i \in DOMAIN sent[m] : sent[m][i] = Album(m)[i]

\* The inductive invariant.  It implies AtMostOnce.
IInv ==
  /\ TypeOK /\ Members /\ OneLeader /\ LinksPaired
  /\ \A m \in Msgs : Reference(m) /\ Copied(m)

=============================================================================
