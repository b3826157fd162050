-------------------------- MODULE MediaGroupProofs ---------------------------
(* That IInv of MediaGroupInv is inductive, and what follows from it.      *)
EXTENDS MediaGroupInv, TLAPS

-----------------------------------------------------------------------------
(* Sequences of messages, and sequences of groups.                         *)

LEMMA AppendFresh ==
  ASSUME NEW s \in Seq(Msgs), NEW m \in Msgs, m \notin ToSet(s), IsInjective(s)
  PROVE  /\ Append(s, m) \in Seq(Msgs)
         /\ IsInjective(Append(s, m))
         /\ ToSet(Append(s, m)) = ToSet(s) \cup {m}
         /\ Len(s) <= Len(Append(s, m))
         /\ \A i \in DOMAIN s : Append(s, m)[i] = s[i]
<1>1. /\ Append(s, m) \in Seq(Msgs) /\ Len(Append(s, m)) = Len(s) + 1
      /\ \A i \in DOMAIN s : Append(s, m)[i] = s[i]
      /\ Append(s, m)[Len(s) + 1] = m
      /\ DOMAIN s = 1 .. Len(s) /\ DOMAIN Append(s, m) = 1 .. (Len(s) + 1)
      /\ Len(s) \in Nat
  OBVIOUS
<1> QED BY <1>1 DEF IsInjective, ToSet

\* Sorting puts the same messages in a different order.
LEMMA SortingOf ==
  ASSUME NEW s \in Seq(Msgs), NEW t \in Sortings(s)
  PROVE  t \in Seq(Msgs) /\ IsInjective(t) /\ ToSet(t) \subseteq ToSet(s)
<1>1. /\ DOMAIN s = 1 .. Len(s) /\ Len(s) \in Nat
      /\ t \in [1 .. Len(s) -> ToSet(s)] /\ ToSet(s) \subseteq Msgs
      /\ \A i, j \in 1 .. Len(s) : i < j => t[i] < t[j]
  BY DEF Sortings, ToSet
<1>2. t \in Seq(Msgs)
  BY <1>1
<1>3. \A i \in 1 .. Len(s) : t[i] \in Nat
  BY <1>1, MsgsAssumption
<1>4. IsInjective(t)
  <2> SUFFICES ASSUME NEW a \in 1 .. Len(s), NEW b \in 1 .. Len(s), t[a] = t[b]
               PROVE  a = b
    BY <1>1 DEF IsInjective
  <2>1. ~(a < b) /\ ~(b < a)
    BY <1>1, <1>3
  <2> QED BY <1>1, <2>1
<1>5. ToSet(t) \subseteq ToSet(s)
  <2>1. DOMAIN t = 1 .. Len(s) /\ \A i \in 1 .. Len(s) : t[i] \in ToSet(s)
    BY <1>1
  <2> QED BY <2>1 DEF ToSet
<1> QED BY <1>2, <1>4, <1>5

Group == [messages: Seq(Msgs), done: {"nil", "open", "closed"}]

\* One group is replaced.
LEMMA Replaced ==
  ASSUME groups \in Seq(Group), NEW i \in DOMAIN groups, NEW g \in Group,
         groups' = [groups EXCEPT ![i] = g]
  PROVE  /\ groups' \in Seq(Group) /\ Len(groups') = Len(groups)
         /\ DOMAIN groups' = DOMAIN groups /\ groups'[i] = g
         /\ \A j \in DOMAIN groups \ {i} : groups'[j] = groups[j]
OBVIOUS

\* The messages of one group are replaced.
LEMMA ReplacedMessages ==
  ASSUME groups \in Seq(Group), NEW i \in DOMAIN groups, NEW s \in Seq(Msgs),
         groups' = [groups EXCEPT ![i].messages = s]
  PROVE  /\ groups' \in Seq(Group) /\ Len(groups') = Len(groups)
         /\ DOMAIN groups' = DOMAIN groups /\ groups'[i].messages = s
         /\ \A j \in DOMAIN groups \ {i} : groups'[j] = groups[j]
<1> DEFINE g == [groups[i] EXCEPT !.messages = s]
<1>1. groups[i] \in Group
  OBVIOUS
<1>2. g \in Group /\ g.messages = s
  BY <1>1 DEF Group
<1>3. groups' = [groups EXCEPT ![i] = g]
  OBVIOUS
<1> HIDE DEF g
<1> QED BY <1>2, <1>3, Replaced

\* The channel of one group is made or closed.
LEMMA ReplacedChannel ==
  ASSUME groups \in Seq(Group), NEW i \in DOMAIN groups, NEW d \in {"open", "closed"},
         groups' = [groups EXCEPT ![i].done = d]
  PROVE  /\ groups' \in Seq(Group) /\ Len(groups') = Len(groups)
         /\ DOMAIN groups' = DOMAIN groups
         /\ \A j \in DOMAIN groups : groups'[j].messages = groups[j].messages
<1> DEFINE g == [groups[i] EXCEPT !.done = d]
<1>1. groups[i] \in Group
  OBVIOUS
<1>2. g \in Group /\ g.messages = groups[i].messages
  BY <1>1 DEF Group
<1>3. groups' = [groups EXCEPT ![i] = g]
  OBVIOUS
<1> HIDE DEF g
<1> QED BY <1>2, <1>3, Replaced

-----------------------------------------------------------------------------
(* getMediaGroup                                                           *)

LEMMA Typed ==
  ASSUME TypeOK
  PROVE  /\ groups \in Seq(Group) /\ Len(groups) \in Nat
         /\ DOMAIN groups = 1 .. Len(groups) /\ cached \in 0 .. Len(groups)
         /\ \A i \in DOMAIN groups : groups[i].messages \in Seq(Msgs)
         /\ \A m \in Msgs : /\ pc[m] \in Labels /\ ref[m] \in 0 .. Len(groups)
                            /\ sent[m] \in Seq(Msgs)
                            /\ ref[m] # 0 => ref[m] \in DOMAIN groups
<1>1. groups \in Seq(Group) /\ cached \in 0 .. Len(groups)
  BY DEF TypeOK, Group
<1>2. Len(groups) \in Nat /\ DOMAIN groups = 1 .. Len(groups)
  BY <1>1
<1>3. ASSUME NEW i \in DOMAIN groups PROVE groups[i].messages \in Seq(Msgs)
  <2>1. groups[i] \in Group
    BY <1>1, <1>2
  <2> QED BY <2>1 DEF Group
<1> QED BY <1>1, <1>2, <1>3 DEF TypeOK

\* A step of one goroutine, or none, that leaves the messages of every group alone.
LEMMA Steady ==
  ASSUME IInv, TypeOK', NEW movers \in SUBSET Msgs, UNCHANGED links,
         \A a \in Msgs \ movers :
           pc'[a] = pc[a] /\ ref'[a] = ref[a] /\ sent'[a] = sent[a],
         DOMAIN groups' = DOMAIN groups,
         \A i \in DOMAIN groups : groups'[i].messages = groups[i].messages,
         \A m \in movers :
           /\ Reference(m)' /\ Copied(m)'
           /\ Leads(m)' => Leads(m) /\ ref'[m] = ref[m]
           /\ pc[m] \in {"wait", "relay", "link", "done"} =>
                ref'[m] = ref[m] /\ pc'[m] \in {"wait", "relay", "link", "done"}
  PROVE  IInv'
<1>1. Members'
  <2> SUFFICES ASSUME NEW i \in DOMAIN groups
               PROVE  /\ IsInjective(groups[i].messages)
                      /\ \A m \in ToSet(groups[i].messages) :
                           ref'[m] = i /\ pc'[m] \in {"wait", "relay", "link", "done"}
    BY DEF Members
  <2>1. \A m \in ToSet(groups[i].messages) :
          m \in Msgs /\ ref[m] = i /\ pc[m] \in {"wait", "relay", "link", "done"}
    <3>1. groups[i].messages \in Seq(Msgs)
      BY Typed DEF IInv
    <3> QED BY <3>1 DEF ToSet, IInv, Members
  <2> QED BY <2>1 DEF IInv, Members
<1>2. OneLeader'
  <2>1. \A a \in Msgs : Leads(a)' => Leads(a) /\ ref'[a] = ref[a]
    BY DEF Leads
  <2> QED BY <2>1 DEF IInv, OneLeader
<1>3. ASSUME NEW a \in Msgs \ movers PROVE Reference(a)' /\ Copied(a)'
  <2>1. ref[a] # 0 => groups'[ref[a]].messages = groups[ref[a]].messages
    BY Typed DEF IInv
  <2>2. Album(a)' = Album(a)
    BY <1>3, <2>1 DEF Album
  <2> QED BY <1>3, <2>1, <2>2 DEF IInv, Reference, Copied
<1> QED BY <1>1, <1>2, <1>3 DEF IInv, LinksPaired

\* The first goroutine makes a group that nobody refers to yet.
LEMMA EnterFirst ==
  ASSUME IInv, NEW m \in Msgs, Enter(m), cached = 0
  PROVE  IInv'
<1> DEFINE g == [messages |-> <<>>, done |-> "nil"]
           n == Len(groups) + 1
<1>1. /\ pc[m] = "start" /\ groups' = Append(groups, g) /\ cached' = n
      /\ ref' = [ref EXCEPT ![m] = n] /\ pc' = [pc EXCEPT ![m] = "publish"]
      /\ UNCHANGED <<sent, links, told, album>>
  BY DEF Enter, Goto
<1>2. g \in Group /\ g.messages = <<>>
  BY DEF Group
<1> HIDE DEF g
<1>3. /\ groups' \in Seq(Group) /\ Len(groups') = n /\ n \in Nat \ {0}
      /\ DOMAIN groups' = DOMAIN groups \cup {n} /\ n \notin DOMAIN groups
      /\ groups'[n] = g /\ \A i \in DOMAIN groups : groups'[i] = groups[i]
  BY <1>1, <1>2, Typed DEF IInv
<1>4. TypeOK'
  BY <1>1, <1>3 DEF IInv, TypeOK, Labels, Group, album
<1>5. /\ pc'[m] = "publish" /\ ref'[m] = n /\ ref[m] = 0 /\ sent[m] = <<>>
      /\ \A a \in Msgs \ {m} : pc'[a] = pc[a] /\ ref'[a] = ref[a]
      /\ \A a \in Msgs : ref[a] # n
  BY <1>1, <1>3, Typed DEF IInv, Reference, TypeOK
<1>6. Members'
  BY <1>1, <1>2, <1>3, <1>5, Typed DEF IInv, Members, ToSet, IsInjective
<1>7. OneLeader'
  BY <1>1, <1>5 DEF IInv, OneLeader, Leads
<1>8. ASSUME NEW a \in Msgs PROVE Reference(a)' /\ Copied(a)'
  <2>1. a # m => Album(a)' = Album(a) /\ (ref[a] # 0 => groups'[ref[a]] = groups[ref[a]])
    BY <1>3, <1>5, Typed DEF Album, IInv
  <2>2. Reference(a) /\ Copied(a)
    BY DEF IInv
  <2> QED BY <1>1, <1>3, <1>5, <2>1, <2>2 DEF Reference, Copied
<1> QED BY <1>1, <1>4, <1>6, <1>7, <1>8 DEF IInv, LinksPaired

\* Any other goroutine goes looking for the group.
LEMMA EnterSecond ==
  ASSUME IInv, NEW m \in Msgs, Enter(m), cached # 0
  PROVE  IInv'
<1>1. /\ pc[m] = "start" /\ pc' = [pc EXCEPT ![m] = "find"]
      /\ UNCHANGED <<groups, cached, ref, sent, links, told, album>>
  BY DEF Enter, Goto
<1>2. TypeOK'
  BY <1>1 DEF IInv, TypeOK, Labels, album
<1>3. /\ pc'[m] = "find" /\ \A a \in Msgs \ {m} : pc'[a] = pc[a]
      /\ Reference(m) /\ Copied(m)
  BY <1>1, <1>2 DEF IInv, TypeOK
<1>8. Reference(m)' /\ Copied(m)' /\ (Leads(m)' => Leads(m) /\ ref'[m] = ref[m])
  BY <1>1, <1>3 DEF Reference, Copied, Leads
<1>9. /\ {m} \in SUBSET Msgs
      /\ \A a \in Msgs \ {m} :
           pc'[a] = pc[a] /\ ref'[a] = ref[a] /\ sent'[a] = sent[a]
      /\ \A a \in {m} :
           /\ Reference(a)' /\ Copied(a)'
           /\ Leads(a)' => Leads(a) /\ ref'[a] = ref[a]
           /\ pc[a] \in {"wait", "relay", "link", "done"} =>
                ref'[a] = ref[a] /\ pc'[a] \in {"wait", "relay", "link", "done"}
  BY <1>1, <1>3, <1>8
<1>10. /\ UNCHANGED links /\ DOMAIN groups' = DOMAIN groups
       /\ \A i \in DOMAIN groups : groups'[i].messages = groups[i].messages
  BY <1>1
<1> QED BY <1>2, <1>9, <1>10, Steady

LEMMA PublishStep ==
  ASSUME IInv, NEW m \in Msgs, Publish(m)
  PROVE  IInv'
<1>1. /\ pc[m] = "publish" /\ pc' = [pc EXCEPT ![m] = "join"]
      /\ groups' = [groups EXCEPT ![ref[m]].done = "open"]
      /\ UNCHANGED <<cached, ref, sent, links, told, album>>
  BY DEF Publish, Goto
<1>2. /\ Reference(m) /\ Copied(m)
  BY DEF IInv
<1>3. ref[m] \in DOMAIN groups
  BY <1>1, <1>2, Typed DEF Reference, IInv
<1>4. /\ groups' \in Seq(Group) /\ Len(groups') = Len(groups)
      /\ DOMAIN groups' = DOMAIN groups
      /\ \A j \in DOMAIN groups : groups'[j].messages = groups[j].messages
  BY <1>1, <1>3, Typed, ReplacedChannel DEF IInv
<1>5. TypeOK'
  BY <1>1, <1>4 DEF IInv, TypeOK, Labels, album, Group
<1>6. pc'[m] = "join" /\ \A a \in Msgs \ {m} : pc'[a] = pc[a]
  BY <1>1, <1>5 DEF IInv, TypeOK
<1>8. Reference(m)' /\ Copied(m)' /\ (Leads(m)' => Leads(m) /\ ref'[m] = ref[m])
  BY <1>1, <1>2, <1>3, <1>4, <1>6 DEF Reference, Copied, Leads
<1>9. /\ {m} \in SUBSET Msgs
      /\ \A a \in Msgs \ {m} :
           pc'[a] = pc[a] /\ ref'[a] = ref[a] /\ sent'[a] = sent[a]
      /\ \A a \in {m} :
           /\ Reference(a)' /\ Copied(a)'
           /\ Leads(a)' => Leads(a) /\ ref'[a] = ref[a]
           /\ pc[a] \in {"wait", "relay", "link", "done"} =>
                ref'[a] = ref[a] /\ pc'[a] \in {"wait", "relay", "link", "done"}
  BY <1>1, <1>6, <1>8
<1>10. /\ UNCHANGED links /\ DOMAIN groups' = DOMAIN groups
       /\ \A i \in DOMAIN groups : groups'[i].messages = groups[i].messages
  BY <1>1, <1>4
<1> QED BY <1>5, <1>9, <1>10, Steady

LEMMA FindStep ==
  ASSUME IInv, NEW m \in Msgs, Find(m)
  PROVE  IInv'
<1>1. /\ pc[m] = "find" /\ UNCHANGED <<groups, cached, sent, links, told, album>>
      /\ \/ /\ cached # 0 /\ ref' = [ref EXCEPT ![m] = cached]
            /\ pc' = [pc EXCEPT ![m] = "late"]
         \/ ref' = ref /\ pc' = [pc EXCEPT ![m] = "relay"]
  BY DEF Find, Goto
<1>2. TypeOK'
  BY <1>1 DEF IInv, TypeOK, Labels, album
<1>3. /\ \A a \in Msgs \ {m} : pc'[a] = pc[a] /\ ref'[a] = ref[a]
      /\ \/ pc'[m] = "late" /\ ref'[m] # 0
         \/ pc'[m] = "relay" /\ ref'[m] = ref[m]
      /\ Reference(m) /\ Copied(m)
  BY <1>1, <1>2 DEF IInv, TypeOK
<1>8. Reference(m)' /\ Copied(m)' /\ (Leads(m)' => Leads(m) /\ ref'[m] = ref[m])
  BY <1>1, <1>3 DEF Reference, Copied, Leads
<1>9. /\ {m} \in SUBSET Msgs
      /\ \A a \in Msgs \ {m} :
           pc'[a] = pc[a] /\ ref'[a] = ref[a] /\ sent'[a] = sent[a]
      /\ \A a \in {m} :
           /\ Reference(a)' /\ Copied(a)'
           /\ Leads(a)' => Leads(a) /\ ref'[a] = ref[a]
           /\ pc[a] \in {"wait", "relay", "link", "done"} =>
                ref'[a] = ref[a] /\ pc'[a] \in {"wait", "relay", "link", "done"}
  BY <1>1, <1>3, <1>8
<1>10. /\ UNCHANGED links /\ DOMAIN groups' = DOMAIN groups
       /\ \A i \in DOMAIN groups : groups'[i].messages = groups[i].messages
  BY <1>1
<1> QED BY <1>2, <1>9, <1>10, Steady

\* The cache gives up a group, and then drops it.
LEMMA CacheStep ==
  ASSUME IInv, Expire \/ Evict
  PROVE  IInv'
<1>1. UNCHANGED <<pc, ref, sent, links, told, album>>
  BY DEF Expire, Evict
<1>2. /\ groups' \in Seq(Group) /\ Len(groups') = Len(groups)
      /\ DOMAIN groups' = DOMAIN groups
      /\ \A j \in DOMAIN groups : groups'[j].messages = groups[j].messages
      /\ cached' \in {cached, 0}
  <2>1. CASE Expire
    <3>1. cached \in DOMAIN groups
      BY <2>1, Typed DEF Expire, IInv
    <3> QED BY <2>1, <3>1, Typed, ReplacedChannel DEF Expire, IInv
  <2>2. CASE Evict
    BY <2>2, Typed DEF Evict, IInv
  <2> QED BY <2>1, <2>2
<1>3. TypeOK'
  BY <1>1, <1>2 DEF IInv, TypeOK, album, Group
<1> DEFINE movers == {}
<1>4. movers \in SUBSET Msgs /\ \A m \in movers : FALSE
  OBVIOUS
<1> HIDE DEF movers
<1> QED BY <1>1, <1>2, <1>3, <1>4, Steady

\* A goroutine adds its message to the group it holds.
LEMMA Added ==
  ASSUME IInv, NEW m \in Msgs, Join(m) \/ AddLate(m)
  PROVE  IInv'
<1> DEFINE i == ref[m]
           old == groups[i].messages
           new == Append(old, m)
<1>1. PICK l \in {"wait", "done"} :
        /\ pc' = [pc EXCEPT ![m] = l] /\ pc[m] \in {"join", "late"}
        /\ pc[m] = "join" <=> l = "wait"
        /\ groups' = [groups EXCEPT ![i].messages = new]
        /\ UNCHANGED <<cached, ref, sent, links, told, album>>
  BY DEF Join, AddLate, Goto, Add
<1>2. /\ Reference(m) /\ Copied(m) /\ sent[m] = <<>> /\ i \in DOMAIN groups
      /\ old \in Seq(Msgs)
  BY <1>1, Typed DEF IInv, Reference
<1>3. m \notin ToSet(old) /\ IsInjective(old)
  BY <1>1, <1>2 DEF IInv, Members
<1>4. /\ new \in Seq(Msgs) /\ IsInjective(new) /\ ToSet(new) = ToSet(old) \cup {m}
      /\ Len(old) <= Len(new) /\ \A k \in DOMAIN old : new[k] = old[k]
  BY <1>2, <1>3, AppendFresh
<1> HIDE DEF new, old, i
<1>5. /\ groups' \in Seq(Group) /\ Len(groups') = Len(groups)
      /\ DOMAIN groups' = DOMAIN groups /\ groups'[i].messages = new
      /\ \A j \in DOMAIN groups \ {i} : groups'[j] = groups[j]
  BY <1>1, <1>2, <1>4, Typed, ReplacedMessages DEF IInv
<1>6. TypeOK'
  BY <1>1, <1>5 DEF IInv, TypeOK, Labels, album, Group
<1>7. pc'[m] = l /\ \A a \in Msgs \ {m} : pc'[a] = pc[a]
  BY <1>1 DEF IInv, TypeOK
<1>8. Members'
  <2> SUFFICES ASSUME NEW j \in DOMAIN groups
               PROVE  /\ IsInjective(groups'[j].messages)
                      /\ \A a \in ToSet(groups'[j].messages) :
                           ref[a] = j /\ pc'[a] \in {"wait", "relay", "link", "done"}
    BY <1>1, <1>5 DEF Members
  <2>1. /\ IsInjective(groups[j].messages)
        /\ \A a \in ToSet(groups[j].messages) :
             a \in Msgs /\ ref[a] = j /\ pc[a] \in {"wait", "relay", "link", "done"}
    <3>1. groups[j].messages \in Seq(Msgs)
      BY Typed DEF IInv
    <3> QED BY <3>1 DEF ToSet, IInv, Members
  <2>2. CASE j # i
    BY <1>1, <1>5, <1>7, <2>1, <2>2
  <2>3. CASE j = i
    BY <1>1, <1>4, <1>5, <1>7, <2>1, <2>3 DEF i, old
  <2> QED BY <2>2, <2>3
<1>9. OneLeader'
  <2>1. \A a \in Msgs : Leads(a)' => Leads(a) /\ ref'[a] = ref[a]
    BY <1>1, <1>2, <1>7 DEF Leads
  <2> QED BY <2>1 DEF IInv, OneLeader
<1>10. ASSUME NEW a \in Msgs PROVE Reference(a)' /\ Copied(a)'
  <2>1. Reference(a) /\ Copied(a)
    BY DEF IInv
  <2>2. Reference(a)'
    BY <1>1, <1>2, <1>7, <2>1 DEF Reference
  <2>3. ASSUME ref[a] = 0 PROVE Copied(a)'
    <3>1. a # m /\ Album(a) = <<a>> /\ Album(a)' = <<a>>
      BY <1>1, <1>2, <2>3, Typed DEF IInv, Album, i
    <3> QED BY <1>1, <1>7, <2>1, <2>3, <3>1 DEF Copied
  <2>4. ASSUME ref[a] # 0 PROVE Copied(a)'
    <3>1. /\ Len(groups[ref[a]].messages) <= Len(groups'[ref[a]].messages)
          /\ \A k \in DOMAIN groups[ref[a]].messages :
               groups'[ref[a]].messages[k] = groups[ref[a]].messages[k]
          /\ groups[ref[a]].messages \in Seq(Msgs)
          /\ groups'[ref[a]].messages \in Seq(Msgs)
      <4>1. groups[ref[a]].messages \in Seq(Msgs) /\ ref[a] \in DOMAIN groups
        BY <2>4, Typed DEF IInv
      <4>2. CASE ref[a] = i
        BY <1>2, <1>4, <1>5, <4>2 DEF old
      <4>3. CASE ref[a] # i
        BY <1>5, <4>1, <4>3
      <4> QED BY <4>2, <4>3
    <3>2. ToSet(groups[ref[a]].messages) \subseteq ToSet(groups'[ref[a]].messages)
      BY <1>4, <1>5, <2>4, Typed DEF IInv, old
    <3>3. /\ Album(a) = groups[ref[a]].messages
          /\ Album(a)' = groups'[ref[a]].messages
      BY <1>1, <2>4 DEF Album
    <3>4. sent[a] \in Seq(Msgs)
      BY Typed DEF IInv
    <3>5. a = m => pc'[a] # "link"
      BY <1>7
    <3>6. pc'[a] = "link" => /\ Len(sent[a]) <= Len(Album(a)')
                            /\ \A k \in DOMAIN sent[a] : sent[a][k] = Album(a)'[k]
      <4> SUFFICES ASSUME pc'[a] = "link"
                   PROVE  /\ Len(sent[a]) <= Len(Album(a)')
                          /\ \A k \in DOMAIN sent[a] : sent[a][k] = Album(a)'[k]
        OBVIOUS
      <4>1. /\ Len(sent[a]) <= Len(Album(a))
            /\ \A k \in DOMAIN sent[a] : sent[a][k] = Album(a)[k]
        BY <1>7, <2>1, <3>5 DEF Copied
      <4>2. \A k \in DOMAIN sent[a] : k \in DOMAIN groups[ref[a]].messages
        BY <3>1, <3>3, <3>4, <4>1
      <4> QED BY <3>1, <3>3, <3>4, <4>1, <4>2
    <3> QED BY <1>1, <2>1, <2>4, <3>2, <3>6 DEF Copied
  <2> QED BY <2>2, <2>3, <2>4
<1> QED BY <1>1, <1>6, <1>8, <1>9, <1>10 DEF IInv, LinksPaired

\* The leader sorts its group, of which nothing was copied yet.
LEMMA WakeStep ==
  ASSUME IInv, NEW m \in Msgs, Wake(m)
  PROVE  IInv'
<1> DEFINE i == ref[m]
<1>1. PICK new \in Sortings(groups[i].messages) :
        /\ pc[m] = "wait" /\ pc' = [pc EXCEPT ![m] = "relay"]
        /\ groups' = [groups EXCEPT ![i].messages = new]
        /\ UNCHANGED <<cached, ref, sent, links, told, album>>
  BY DEF Wake, Goto
<1>2. /\ Reference(m) /\ Copied(m) /\ sent[m] = <<>> /\ i \in DOMAIN groups
      /\ groups[i].messages \in Seq(Msgs) /\ Leads(m)
  BY <1>1, Typed DEF IInv, Reference, Leads
<1>3. /\ new \in Seq(Msgs) /\ IsInjective(new)
      /\ ToSet(new) \subseteq ToSet(groups[i].messages)
  BY <1>2, SortingOf
<1>4. /\ groups' \in Seq(Group) /\ Len(groups') = Len(groups)
      /\ DOMAIN groups' = DOMAIN groups /\ groups'[i].messages = new
      /\ \A j \in DOMAIN groups \ {i} : groups'[j] = groups[j]
  BY <1>1, <1>2, <1>3, Typed, ReplacedMessages DEF IInv
<1>5. TypeOK'
  BY <1>1, <1>4 DEF IInv, TypeOK, Labels, album, Group
<1>6. pc'[m] = "relay" /\ \A a \in Msgs \ {m} : pc'[a] = pc[a]
  BY <1>1 DEF IInv, TypeOK
<1>7. Members'
  <2> SUFFICES ASSUME NEW j \in DOMAIN groups
               PROVE  /\ IsInjective(groups'[j].messages)
                      /\ \A a \in ToSet(groups'[j].messages) :
                           ref[a] = j /\ pc'[a] \in {"wait", "relay", "link", "done"}
    BY <1>1, <1>4 DEF Members
  <2>1. /\ IsInjective(groups'[j].messages)
        /\ ToSet(groups'[j].messages) \subseteq ToSet(groups[j].messages)
    BY <1>3, <1>4 DEF IInv, Members
  <2>2. \A a \in ToSet(groups[j].messages) :
          a \in Msgs /\ ref[a] = j /\ pc[a] \in {"wait", "relay", "link", "done"}
    <3>1. groups[j].messages \in Seq(Msgs)
      BY Typed DEF IInv
    <3> QED BY <3>1 DEF ToSet, IInv, Members
  <2> QED BY <1>6, <2>1, <2>2
<1>8. OneLeader'
  <2>1. \A a \in Msgs : Leads(a)' => Leads(a) /\ ref'[a] = ref[a]
    BY <1>1, <1>2, <1>6 DEF Leads
  <2> QED BY <2>1 DEF IInv, OneLeader
<1>9. ASSUME NEW a \in Msgs PROVE Reference(a)' /\ Copied(a)'
  <2>1. Reference(a) /\ Copied(a) /\ sent'[a] = sent[a] /\ ref'[a] = ref[a]
    BY <1>1 DEF IInv
  <2>2. CASE a = m
    BY <1>1, <1>2, <1>6, <2>1, <2>2 DEF Reference, Copied
  <2>3. CASE a # m /\ ref[a] = i
    <3>1. ~Leads(a) /\ ref[a] # 0
      BY <1>2, <2>3, Typed DEF IInv, OneLeader
    <3>2. sent[a] = <<>> /\ pc[a] # "link"
      BY <3>1 DEF Leads
    <3> QED BY <1>6, <2>1, <2>3, <3>2 DEF Reference, Copied
  <2>4. CASE a # m /\ ref[a] # i
    <3>1. ref[a] # 0 => groups'[ref[a]] = groups[ref[a]]
      BY <1>4, <2>4, Typed DEF IInv
    <3>2. Album(a)' = Album(a)
      BY <2>1, <3>1 DEF Album
    <3> QED BY <1>6, <2>1, <2>4, <3>1, <3>2 DEF Reference, Copied
  <2> QED BY <2>2, <2>3, <2>4
<1> QED BY <1>1, <1>5, <1>7, <1>8, <1>9 DEF IInv, LinksPaired

-----------------------------------------------------------------------------
(* The handlers                                                            *)

\* What a goroutine at "relay" copies: itself, or its group.
LEMMA AlbumOf ==
  ASSUME IInv, NEW m \in Msgs
  PROVE  /\ Album(m) \in Seq(Msgs) /\ IsInjective(Album(m))
         /\ ref[m] = 0 => Album(m) = <<m>>
         /\ ref[m] # 0 => Album(m) = groups[ref[m]].messages
<1>1. CASE ref[m] = 0
  <2>1. Album(m) = <<m>>
    BY <1>1 DEF Album
  <2> QED BY <1>1, <2>1 DEF IsInjective
<1>2. CASE ref[m] # 0
  <2>1. Album(m) = groups[ref[m]].messages /\ ref[m] \in DOMAIN groups
    BY <1>2, Typed DEF Album, IInv
  <2> QED BY <1>2, <2>1, Typed DEF IInv, Members
<1> QED BY <1>1, <1>2

LEMMA RelayStep ==
  ASSUME IInv, NEW m \in Msgs, Relay(m)
  PROVE  IInv'
<1>1. PICK l \in {"link", "done"}, s \in Seq(Msgs) :
        /\ s = sent[m] \/ s = Album(m)
        /\ pc[m] = "relay" /\ pc' = [pc EXCEPT ![m] = l]
        /\ sent' = [sent EXCEPT ![m] = s]
        /\ l = "link" => s = Album(m)
        /\ told' \in {told, told \cup {m}}
        /\ UNCHANGED <<groups, cached, ref, links, album>>
  <2>1. /\ sent = [sent EXCEPT ![m] = sent[m]]
        /\ sent[m] \in Seq(Msgs) /\ Album(m) \in Seq(Msgs)
    BY AlbumOf, Typed DEF IInv, TypeOK
  <2>2. CASE /\ sent' = [sent EXCEPT ![m] = Album(m)]
             /\ \/ Goto(m, "link") /\ UNCHANGED told
                \/ Goto(m, "done") /\ Fail(m)
    BY <2>1, <2>2 DEF Relay, Goto, Fail
  <2>3. CASE Goto(m, "done") /\ Fail(m) /\ UNCHANGED sent
    BY <2>1, <2>3 DEF Relay, Goto, Fail
  <2> QED BY <2>2, <2>3 DEF Relay
<1>2. /\ Reference(m) /\ Copied(m) /\ sent[m] = <<>>
      /\ Album(m) \in Seq(Msgs) /\ IsInjective(Album(m))
      /\ ref[m] = 0 => Album(m) = <<m>>
      /\ ref[m] # 0 => Album(m) = groups[ref[m]].messages
  BY <1>1, AlbumOf DEF IInv, Reference
<1>3. IsInjective(s)
  BY <1>1, <1>2 DEF Copied
<1>4. TypeOK'
  <2>1. /\ pc \in [Msgs -> Labels] /\ sent \in [Msgs -> Seq(Msgs)] /\ told \subseteq Msgs
        /\ {"link", "done"} \subseteq Labels
    BY DEF IInv, TypeOK, Labels
  <2>2. pc' \in [Msgs -> Labels] /\ sent' \in [Msgs -> Seq(Msgs)] /\ told' \subseteq Msgs
    BY <1>1, <2>1
  <2> QED BY <1>1, <2>2 DEF IInv, TypeOK, album
<1>5. /\ pc'[m] = l /\ sent'[m] = s
      /\ \A a \in Msgs \ {m} : pc'[a] = pc[a] /\ sent'[a] = sent[a]
  <2>1. pc \in [Msgs -> Labels] /\ sent \in [Msgs -> Seq(Msgs)]
    BY DEF IInv, TypeOK
  <2> QED BY <1>1, <2>1
<1>6. Album(m)' = Album(m)
  BY <1>1 DEF Album
<1>7. Reference(m)' /\ (Leads(m)' => Leads(m))
  BY <1>1, <1>2, <1>5 DEF Reference, Leads
<1>8. Copied(m)'
  <2>1. pc'[m] = "link" => /\ Len(sent'[m]) <= Len(Album(m)')
                          /\ \A i \in DOMAIN sent'[m] : sent'[m][i] = Album(m)'[i]
    BY <1>1, <1>2, <1>5, <1>6
  <2>2. s # <<>> => IF ref[m] = 0 THEN s = <<m>>
                      ELSE ToSet(s) \subseteq ToSet(groups[ref[m]].messages)
    BY <1>1, <1>2
  <2> QED BY <1>1, <1>3, <1>5, <2>1, <2>2 DEF Copied
<1>9. /\ {m} \in SUBSET Msgs
      /\ \A a \in Msgs \ {m} :
           pc'[a] = pc[a] /\ ref'[a] = ref[a] /\ sent'[a] = sent[a]
      /\ \A a \in {m} :
           /\ Reference(a)' /\ Copied(a)'
           /\ Leads(a)' => Leads(a) /\ ref'[a] = ref[a]
           /\ pc[a] \in {"wait", "relay", "link", "done"} =>
                ref'[a] = ref[a] /\ pc'[a] \in {"wait", "relay", "link", "done"}
  BY <1>1, <1>5, <1>7, <1>8
<1>10. /\ UNCHANGED links /\ DOMAIN groups' = DOMAIN groups
       /\ \A i \in DOMAIN groups : groups'[i].messages = groups[i].messages
  BY <1>1
<1> QED BY <1>4, <1>9, <1>10, Steady

\* Links are made only if the group is still what was copied.
LEMMA LinkStep ==
  ASSUME IInv, NEW m \in Msgs, Link(m)
  PROVE  IInv'
<1>1. /\ pc[m] = "link" /\ pc' = [pc EXCEPT ![m] = "done"]
      /\ told' \in {told, told \cup {m}}
      /\ \/ links' = links
         \/ /\ Len(Album(m)) = Len(sent[m])
            /\ links' = links \cup Pairs(Album(m), sent[m])
      /\ UNCHANGED <<groups, cached, ref, sent, album>>
  BY DEF Link, Goto, Fail
<1>2. Reference(m) /\ Copied(m) /\ Album(m) \in Seq(Msgs) /\ sent[m] \in Seq(Msgs)
  BY AlbumOf, Typed DEF IInv
<1>3. Len(Album(m)) = Len(sent[m]) =>
        \A p \in Pairs(Album(m), sent[m]) : p \in Msgs \X Msgs /\ p[1] = p[2]
  BY <1>1, <1>2 DEF Copied, Pairs
<1>4. links' \subseteq Msgs \X Msgs /\ LinksPaired'
  BY <1>1, <1>3 DEF IInv, TypeOK, LinksPaired
<1>5. TypeOK'
  BY <1>1, <1>4 DEF IInv, TypeOK, Labels, album
<1>6. pc'[m] = "done" /\ \A a \in Msgs \ {m} : pc'[a] = pc[a]
  BY <1>1 DEF IInv, TypeOK
<1>7. Members'
  BY <1>1, <1>6, Typed DEF IInv, Members, ToSet
<1>8. OneLeader'
  <2>1. \A a \in Msgs : Leads(a)' => Leads(a) /\ ref'[a] = ref[a]
    BY <1>1, <1>6 DEF Leads
  <2> QED BY <2>1 DEF IInv, OneLeader
<1>9. ASSUME NEW a \in Msgs PROVE Reference(a)' /\ Copied(a)'
  <2>1. Reference(a) /\ Copied(a) /\ Album(a)' = Album(a)
    BY <1>1 DEF IInv, Album
  <2> QED BY <1>1, <1>2, <1>6, <2>1 DEF Reference, Copied
<1> QED BY <1>4, <1>5, <1>7, <1>8, <1>9 DEF IInv

-----------------------------------------------------------------------------
(* Theorems                                                                *)

\* However the goroutines of an album meet, IInv holds.
THEOREM Invariance == FairSpec => []IInv
<1>1. Init => IInv
  <2> SUFFICES ASSUME Init PROVE IInv
    OBVIOUS
  <2>1. TypeOK
    BY DEF Init, TypeOK, Labels
  <2>2. Members /\ OneLeader /\ LinksPaired
    BY DEF Init, Members, OneLeader, Leads, LinksPaired
  <2>3. \A m \in Msgs : Reference(m) /\ Copied(m)
    BY DEF Init, Reference, Copied, IsInjective
  <2> QED BY <2>1, <2>2, <2>3 DEF IInv
<1>2. IInv /\ [Next]_vars => IInv'
  <2> SUFFICES ASSUME IInv, [Next]_vars PROVE IInv'
    OBVIOUS
  <2>1. ASSUME NEW m \in Msgs, Enter(m) \/ Step(m) PROVE IInv'
    BY <2>1, EnterFirst, EnterSecond, PublishStep, Added, WakeStep, FindStep,
       RelayStep, LinkStep DEF Step
  <2>2. CASE UNCHANGED vars
    <3> USE <2>2 DEF vars
    <3>1. TypeOK' /\ Members' /\ OneLeader' /\ LinksPaired'
      BY DEF IInv, TypeOK, Members, OneLeader, Leads, LinksPaired, album
    <3>2. ASSUME NEW m \in Msgs PROVE Reference(m)' /\ Copied(m)'
      BY DEF IInv, Reference, Copied, Album
    <3> QED BY <3>1, <3>2 DEF IInv
  <2> QED BY <2>1, <2>2, CacheStep DEF Next, Finished
<1> QED BY <1>1, <1>2, PTL DEF FairSpec

\* Variables have their types.
THEOREM TypeCorrectness == FairSpec => []TypeOK
<1>1. IInv => TypeOK
  BY DEF IInv
<1> QED BY <1>1, Invariance, PTL

\* No message of an album is copied twice: a message is in one group only, a
\* group has one leader, and whoever is alone is in none.
THEOREM CopiedOnce == FairSpec => []AtMostOnce
<1>1. ASSUME IInv PROVE AtMostOnce
  <2>1. \A m \in Msgs : IsInjective(sent[m])
    BY <1>1 DEF IInv, Copied
  <2>2. ASSUME NEW a \in Msgs, NEW b \in Msgs, a # b
        PROVE  ToSet(sent[a]) \cap ToSet(sent[b]) = {}
    <3> SUFFICES ASSUME NEW x \in ToSet(sent[a]), x \in ToSet(sent[b]) PROVE FALSE
      OBVIOUS
    <3>1. sent[a] # <<>> /\ sent[b] # <<>>
      BY DEF ToSet
    <3>2. \A m \in {a, b} :
            \/ ref[m] = 0 /\ x = m
            \/ /\ ref[m] # 0 /\ ref[m] \in DOMAIN groups
               /\ x \in ToSet(groups[ref[m]].messages)
      <4>1. ASSUME NEW m \in {a, b}, ref[m] = 0 PROVE x = m
        <5>1. sent[m] = <<m>>
          BY <1>1, <3>1, <4>1 DEF IInv, Copied
        <5> QED BY <5>1 DEF ToSet
      <4>2. ASSUME NEW m \in {a, b}, ref[m] # 0
            PROVE  ref[m] \in DOMAIN groups /\ x \in ToSet(groups[ref[m]].messages)
        BY <1>1, <3>1, <4>2, Typed DEF IInv, Copied
      <4> QED BY <4>1, <4>2
    <3>3. \A m \in {a, b} : ref[m] # 0 => ref[x] = ref[m]
      BY <1>1, <3>2 DEF IInv, Members
    <3>4. CASE ref[a] # 0 /\ ref[b] # 0
      BY <1>1, <2>2, <3>1, <3>3, <3>4 DEF IInv, OneLeader, Leads
    <3>5. CASE ref[a] = 0 \/ ref[b] = 0
      BY <2>2, <3>2, <3>3, <3>5
    <3> QED BY <3>4, <3>5
  <2> QED BY <2>1, <2>2 DEF AtMostOnce
<1> QED BY <1>1, Invariance, PTL

\* A link joins a message with its own copy: what was copied is still the
\* beginning of the group, and a group that grew is not linked.
THEOREM LinkedToOwnCopy == FairSpec => []LinksPaired
<1>1. IInv => LinksPaired
  BY DEF IInv
<1> QED BY <1>1, Invariance, PTL

=============================================================================
