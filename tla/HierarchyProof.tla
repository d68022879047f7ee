--------------------------- MODULE HierarchyProof ---------------------------
(***************************************************************************)
(* For any groups, devices and channels and any number of requests: what   *)
(* is attached is listed by its parent, and nothing else is listed.        *)
(*                                                                         *)
(* Both are about the moment when no message is under way, and not         *)
(* inductive.  The invariant says the same at every moment of what the     *)
(* $children of a thing will be when its messages are delivered (Listed):  *)
(* the last message about a child decides.                                 *)
(***************************************************************************)
EXTENDS Hierarchy, SequenceTheorems, TLAPS

-----------------------------------------------------------------------------
(* Messages under way.                                                     *)

IsSequence(q) == \E S : q \in Seq(S)

Last(q, child, i) ==
    i \in 1..Len(q) /\ q[i].child = child /\ \A j \in 1..Len(q) : j > i => q[j].child # child

(* The child will be listed when the messages q are delivered.             *)
Listed(q, kids, child) ==
    \/ \E i \in 1..Len(q) : Last(q, child, i) /\ q[i].register
    \/ child \in kids /\ \A i \in 1..Len(q) : q[i].child # child

LEMMA Emptied == IsSequence(<<>>) /\ Len(<<>>) = 0
BY DEF IsSequence

LEMMA ListedEmpty ==
    ASSUME NEW kids, NEW child
    PROVE  Listed(<<>>, kids, child) <=> child \in kids
BY Emptied DEF Listed

LEMMA Appended ==
    ASSUME NEW q, IsSequence(q), NEW m
    PROVE  /\ IsSequence(Append(q, m)) /\ Len(q) \in Nat /\ Len(Append(q, m)) = Len(q) + 1
           /\ Append(q, m)[Len(q) + 1] = m
           /\ \A i \in 1..Len(Append(q, m)) : i = Len(q) + 1 \/ (i \in 1..Len(q) /\ Append(q, m)[i] = q[i])
<1>1. PICK S : q \in Seq(S)
    BY DEF IsSequence
<1>2. q \in Seq(S \cup {m})
    BY <1>1, SeqMonotonic
<1> QED
    BY <1>2, AppendProperties, LenProperties DEF IsSequence

(* The messages of all things.                                             *)
Box(messages) ==
    /\ DOMAIN messages = Things /\ messages = [t \in Things |-> messages[t]]
    /\ \A t \in Things :
          IsSequence(messages[t]) /\ \A i \in 1..Len(messages[t]) : messages[t][i].child \in Things

LEMMA PutIn ==
    ASSUME NEW messages, Box(messages), NEW m, m.child \in Things, NEW t \in Things
    PROVE  Box([messages EXCEPT ![t] = Append(@, m)])
<1> PICK box : box = [messages EXCEPT ![t] = Append(@, m)]
    OBVIOUS
<1>1. /\ DOMAIN box = Things /\ box = [s \in Things |-> box[s]] /\ box[t] = Append(messages[t], m)
      /\ \A s \in Things : s # t => box[s] = messages[s]
    BY DEF Box
<1>2. IsSequence(messages[t]) /\ \A i \in 1..Len(messages[t]) : messages[t][i].child \in Things
    BY DEF Box
<1>3. IsSequence(box[t]) /\ \A i \in 1..Len(box[t]) : box[t][i].child \in Things
    BY <1>1, <1>2, Appended
<1>4. Box(box)
    BY <1>1, <1>3 DEF Box
<1> QED
    BY <1>4

LEMMA ListedAppend ==
    ASSUME NEW q, IsSequence(q), NEW m, NEW kids, NEW child
    PROVE  /\ m.child # child => (Listed(Append(q, m), kids, child) <=> Listed(q, kids, child))
           /\ m.child = child => (Listed(Append(q, m), kids, child) <=> m.register)
<1> PICK a : a = Append(q, m)
    OBVIOUS
<1>1. /\ IsSequence(a) /\ Len(q) \in Nat /\ Len(a) = Len(q) + 1 /\ a[Len(q) + 1] = m
      /\ \A i \in 1..Len(q) : a[i] = q[i]
    BY Appended
<1>2. \A i \in 1..Len(a) : i \in 1..Len(q) \/ i = Len(q) + 1
    BY <1>1
<1>3. 1..Len(q) \subseteq 1..Len(a) /\ Len(q) + 1 \in 1..Len(a)
    BY <1>1
<1>4. ASSUME m.child # child PROVE Listed(a, kids, child) <=> Listed(q, kids, child)
    <2>1. ASSUME NEW i PROVE Last(a, child, i) <=> Last(q, child, i)
        BY <1>1, <1>2, <1>3, <1>4 DEF Last
    <2> QED
        BY <1>1, <1>2, <1>3, <1>4, <2>1 DEF Listed, Last
<1>5. ASSUME m.child = child PROVE Listed(a, kids, child) <=> m.register
    <2>1. ASSUME NEW i PROVE Last(a, child, i) <=> i = Len(q) + 1
        BY <1>1, <1>2, <1>3, <1>5 DEF Last
    <2> QED
        BY <1>1, <1>3, <1>5, <2>1 DEF Listed
<1> QED
    BY <1>4, <1>5

LEMMA TailChild ==
    ASSUME NEW S, NEW q, IsSequence(q), q # <<>>, \A i \in 1..Len(q) : q[i].child \in S
    PROVE  /\ IsSequence(Tail(q)) /\ Head(q).child \in S
           /\ \A i \in 1..Len(Tail(q)) : Tail(q)[i].child \in S
<1>1. PICK T : q \in Seq(T)
    BY DEF IsSequence
<1>2. Len(q) \in Nat /\ Len(q) >= 1
    BY <1>1, EmptySeq
<1>3. /\ Tail(q) \in Seq(T) /\ Head(q) = q[1] /\ Len(Tail(q)) = Len(q) - 1
      /\ \A i \in 1..Len(Tail(q)) : Tail(q)[i] = q[i + 1] /\ i + 1 \in 1..Len(q)
    BY <1>1, <1>2, HeadTailProperties
<1> QED
    BY <1>2, <1>3 DEF IsSequence

(* A message delivered: what will be listed remains the same.              *)
LEMMA ListedTail ==
    ASSUME NEW q, IsSequence(q), q # <<>>, NEW kids, NEW after, NEW child,
           after = IF Head(q).register THEN kids \cup {Head(q).child} ELSE kids \ {Head(q).child}
    PROVE  /\ IsSequence(Tail(q))
           /\ Listed(Tail(q), after, child) <=> Listed(q, kids, child)
<1> PICK r : r = Tail(q)
    OBVIOUS
<1>1. /\ IsSequence(r) /\ Len(q) \in Nat /\ Len(q) >= 1 /\ Len(r) = Len(q) - 1 /\ Head(q) = q[1]
      /\ \A i \in 1..Len(r) : r[i] = q[i + 1]
    <2>1. PICK S : q \in Seq(S)
        BY DEF IsSequence
    <2>2. Len(q) \in Nat /\ Len(q) >= 1
        BY <2>1, EmptySeq
    <2> QED
        BY <2>1, <2>2, HeadTailProperties DEF IsSequence
<1>2. 1 \in 1..Len(q) /\ \A i \in 1..Len(r) : i + 1 \in 1..Len(q) /\ i + 1 > 1
    BY <1>1
<1>3. \A i \in 1..Len(q) : i = 1 \/ (i - 1 \in 1..Len(r) /\ q[i] = r[i - 1] /\ i > 1)
    BY <1>1
<1>4. ASSUME Listed(r, after, child) PROVE Listed(q, kids, child)
    <2>1. ASSUME NEW i \in 1..Len(r), Last(r, child, i), r[i].register PROVE Listed(q, kids, child)
        <3>1. i + 1 \in 1..Len(q) /\ q[i + 1].child = child /\ q[i + 1].register
            BY <1>1, <1>2, <2>1 DEF Last
        <3>2. ASSUME NEW j \in 1..Len(q), j > i + 1 PROVE q[j].child # child
            <4>1. j - 1 \in 1..Len(r) /\ q[j] = r[j - 1] /\ j - 1 > i
                BY <1>3, <3>2
            <4> QED
                BY <2>1, <4>1 DEF Last
        <3>3. Last(q, child, i + 1)
            BY <3>1, <3>2 DEF Last
        <3> QED
            BY <3>1, <3>3 DEF Listed
    <2>2. CASE child \in after /\ \A i \in 1..Len(r) : r[i].child # child
        <3>1. CASE q[1].child = child
            <4>1. Last(q, child, 1)
                BY <1>2, <1>3, <2>2, <3>1 DEF Last
            <4>2. q[1].register
                BY <1>1, <2>2, <3>1
            <4> QED
                BY <1>2, <4>1, <4>2 DEF Listed
        <3>2. CASE q[1].child # child
            BY <1>1, <1>3, <2>2, <3>2 DEF Listed
        <3> QED
            BY <3>1, <3>2
    <2> QED
        BY <1>4, <2>1, <2>2 DEF Listed
<1>5. ASSUME Listed(q, kids, child) PROVE Listed(r, after, child)
    <2>1. ASSUME NEW i \in 1..Len(q), Last(q, child, i), q[i].register PROVE Listed(r, after, child)
        <3>1. CASE i = 1
            <4>1. \A j \in 1..Len(r) : r[j].child # child
                BY <1>1, <1>2, <2>1, <3>1 DEF Last
            <4> QED
                BY <1>1, <2>1, <3>1, <4>1 DEF Listed, Last
        <3>2. CASE i > 1
            <4>1. i - 1 \in 1..Len(r) /\ r[i - 1] = q[i]
                BY <1>3, <3>2
            <4>2. Last(r, child, i - 1) /\ r[i - 1].register
                BY <1>1, <1>2, <2>1, <4>1 DEF Last
            <4> QED
                BY <4>1, <4>2 DEF Listed
        <3> QED
            BY <3>1, <3>2
    <2>2. CASE child \in kids /\ \A i \in 1..Len(q) : q[i].child # child
        <3>1. child \in after /\ \A i \in 1..Len(r) : r[i].child # child
            BY <1>1, <1>2, <2>2
        <3> QED
            BY <3>1 DEF Listed
    <2> QED
        BY <1>5, <2>1, <2>2 DEF Listed
<1> QED
    BY <1>1, <1>4, <1>5

-----------------------------------------------------------------------------
(* The invariant.                                                          *)

Types ==
    /\ things \subseteq Things
    /\ group \in [Devices -> Annotation \cup {None}]
    /\ DOMAIN parent = Things /\ parent = [t \in Things |-> parent[t]]
    /\ children \in [Things -> SUBSET Things]
    /\ Box(inbox)

(* What does not exist has neither annotations nor a state.                *)
Absent ==
    \A t \in Things \ things :
        /\ parent[t] = None /\ children[t] = {} /\ t \notin annotated
        /\ t.kind = "device" => group[t.name] = None

(* $parent is the thing above, or a group that t has left, which strayed   *)
(* records, when it belongs nowhere.                                       *)
Stands(t, groups, strayed) ==
    parent[t] = Above(t, groups) \/ (Above(t, groups) = None /\ <<t, parent[t]>> \in strayed)
Placed == \A t \in things : Stands(t, group, moved)

(* The two properties, of what will be listed.                             *)
Registered ==
    \A t \in things :
        Above(t, group) # None =>
            \/ Above(t, group) \in deleted
            \/ Listed(inbox[Above(t, group)], children[Above(t, group)], t)
Belonging ==
    \A t, child \in Things :
        Listed(inbox[t], children[t], child) =>
            \/ child \in things /\ Above(child, group) = t
            \/ <<child, t>> \in moved

HierarchyInv == Types /\ Absent /\ Placed /\ Registered /\ Belonging

LEMMA AboveThing ==
    ASSUME NEW t \in Things, NEW groups \in [Devices -> Annotation \cup {None}], Above(t, groups) # None
    PROVE  Above(t, groups) \in Things
<1>1. CASE \E p \in Paths : t = Group(p)
    <2>1. PICK p \in Paths : t = Group(p)
        BY <1>1
    <2>2. p # <<>> /\ Above(t, groups) = Group(SubSeq(p, 1, Len(p) - 1))
        BY <2>1 DEF Above, Group
    <2> QED
        BY <2>2, HierarchyAssumption DEF Things
<1>2. CASE \E d \in Devices : t = Device(d)
    <2>1. PICK d \in Devices : t = Device(d)
        BY <1>2
    <2>2. groups[d] # None /\ Above(t, groups) = Group(groups[d].path)
        BY <2>1 DEF Above, Device
    <2>3. groups[d].path \in Paths
        BY <2>2 DEF Annotation
    <2> QED
        BY <2>2, <2>3 DEF Things
<1>3. CASE \E c \in Channels : t = Channel(c)
    <2>1. PICK c \in Channels : t = Channel(c)
        BY <1>3
    <2>2. Above(t, groups) = Device(c[1])
        BY <2>1 DEF Above, Channel
    <2> QED
        BY <2>2, HierarchyAssumption DEF Things
<1> QED
    BY <1>1, <1>2, <1>3 DEF Things

(* The place of a thing depends on the group of the device that it is.     *)
LEMMA SamePlace ==
    ASSUME NEW t \in Things, NEW groups, NEW others, t.kind = "device" => groups[t.name] = others[t.name]
    PROVE  Above(t, groups) = Above(t, others)
BY DEF Above, Things, Group, Device, Channel

LEMMA DeviceThing ==
    ASSUME NEW t \in Things
    PROVE  /\ t.kind = "device" => t.name \in Devices /\ t = Device(t.name)
           /\ \A d \in Devices : Device(d) \in Things /\ Device(d).kind = "device" /\ Device(d).name = d
<1>1. \A d \in Devices : Device(d) \in Things /\ Device(d).kind = "device" /\ Device(d).name = d
    BY DEF Things, Device
<1>2. t.kind = "device" => \E d \in Devices : t = Device(d)
    BY DEF Things, Group, Channel
<1> QED
    BY <1>1, <1>2

-----------------------------------------------------------------------------
(* The script is to run for t, which alone may lack a registration: with   *)
(* these groups and messages, when these things are present with these     *)
(* children, after deletions and moves.                                    *)
ReadyFor(t, groups, messages, present, kids, gone, strayed) ==
    /\ t \in Things /\ t \in present /\ present \subseteq Things
    /\ groups \in [Devices -> Annotation \cup {None}] /\ Box(messages)
    /\ DOMAIN parent = Things /\ parent = [s \in Things |-> parent[s]]
    /\ kids \in [Things -> SUBSET Things]
    /\ \A other \in Things \ present :
          /\ parent[other] = None /\ kids[other] = {} /\ other \notin annotated
          /\ other.kind = "device" => groups[other.name] = None
    /\ \A other \in present : other # t \/ Above(t, groups) = None => Stands(other, groups, strayed)
    /\ \A other \in present :
          Above(other, groups) # None /\ (other # t \/ ~Registers(t, groups)) =>
              \/ Above(other, groups) \in gone
              \/ Listed(messages[Above(other, groups)], kids[Above(other, groups)], other)
    /\ \A s, child \in Things :
          Listed(messages[s], kids[s], child) =>
              \/ child \in present /\ Above(child, groups) = s
              \/ <<child, s>> \in strayed

LEMMA ChangedKeeps ==
    ASSUME NEW t, NEW groups, NEW messages,
           ReadyFor(t, groups, messages, things', children', deleted', moved'),
           Changed(t, groups, messages)
    PROVE  HierarchyInv'
<1>0. /\ t \in Things /\ t \in things' /\ things' \subseteq Things
      /\ groups \in [Devices -> Annotation \cup {None}] /\ Box(messages)
      /\ DOMAIN parent = Things /\ parent = [s \in Things |-> parent[s]]
      /\ children' \in [Things -> SUBSET Things]
    BY DEF ReadyFor
<1> PICK above : above = Above(t, groups)
    OBVIOUS
<1> PICK m : m = Message(TRUE, t)
    OBVIOUS
<1>1. /\ group' = groups
      /\ annotated' = annotated \/ annotated' = annotated \cup {t}
      /\ parent' = IF above # None THEN [parent EXCEPT ![t] = above] ELSE parent
      /\ inbox' = IF above # None /\ Registers(t, groups)
                  THEN [messages EXCEPT ![above] = Append(@, m)] ELSE messages
    BY DEF Changed
<1>2. above # None => above \in Things
    BY <1>0, AboveThing
<1>3. m.register = TRUE /\ m.child = t
    BY DEF Message
<1>4. \A s \in Things : inbox'[s] = messages[s] \/ (inbox'[s] = Append(messages[s], m) /\ s = above)
    BY <1>0, <1>1, <1>2 DEF Box
<1>5. above # None /\ Registers(t, groups) => inbox'[above] = Append(messages[above], m)
    BY <1>0, <1>1, <1>2 DEF Box
<1>6. Types'
    <2>1. DOMAIN parent' = Things /\ parent' = [s \in Things |-> parent'[s]]
        BY <1>0, <1>1
    <2>2. Box(inbox')
        <3>1. above # None => Box([messages EXCEPT ![above] = Append(@, m)])
            <4>1. m.child \in Things
                BY <1>0, <1>3
            <4> QED
                BY <1>0, <1>2, <4>1, PutIn, Zenon
        <3> QED
            BY <1>0, <1>1, <3>1
    <2> QED
        BY <1>0, <1>1, <2>1, <2>2 DEF Types
<1>7. Absent'
    BY <1>0, <1>1 DEF ReadyFor, Absent
<1>8. Placed'
    BY <1>0, <1>1 DEF ReadyFor, Placed, Stands
<1>9. ASSUME NEW s \in Things, NEW child \in Things
      PROVE  /\ child # t => (Listed(inbox'[s], children'[s], child) <=> Listed(messages[s], children'[s], child))
             /\ Listed(messages[s], children'[s], t) => Listed(inbox'[s], children'[s], t)
             /\ Listed(inbox'[s], children'[s], t) => Listed(messages[s], children'[s], t) \/ s = above
             /\ s = above /\ above # None /\ Registers(t, groups) => Listed(inbox'[s], children'[s], t)
    <2> PICK q : q = messages[s]
        OBVIOUS
    <2> PICK kids : kids = children'[s]
        OBVIOUS
    <2>1. IsSequence(q)
        BY <1>0 DEF Box
    <2>2. /\ m.child # child => (Listed(Append(q, m), kids, child) <=> Listed(q, kids, child))
          /\ Listed(Append(q, m), kids, t)
        BY <1>3, <2>1, ListedAppend
    <2>3. CASE inbox'[s] = messages[s]
        <3>1. s = above /\ above # None /\ Registers(t, groups) => inbox'[s] = Append(q, m)
            BY <1>5
        <3> QED
            BY <2>2, <2>3, <3>1
    <2>4. CASE inbox'[s] = Append(messages[s], m) /\ s = above
        BY <1>3, <2>2, <2>4
    <2> QED
        BY <1>4, <2>3, <2>4
<1>10. Registered'
    <2> SUFFICES ASSUME NEW other \in things', Above(other, groups) # None, Above(other, groups) \notin deleted'
                 PROVE  Listed(inbox'[Above(other, groups)], children'[Above(other, groups)], other)
        BY <1>1 DEF Registered
    <2> PICK s : s = Above(other, groups)
        OBVIOUS
    <2>1. s \in Things /\ other \in Things
        BY <1>0, AboveThing
    <2>3. CASE other # t \/ ~Registers(t, groups)
        BY <1>9, <2>1, <2>3 DEF ReadyFor
    <2>4. CASE other = t /\ Registers(t, groups)
        BY <1>0, <1>9, <2>1, <2>4
    <2> QED
        BY <2>3, <2>4
<1>11. Belonging'
    <2>1. ASSUME NEW s \in Things, NEW child \in Things, Listed(inbox'[s], children'[s], child)
          PROVE  \/ child \in things' /\ Above(child, group') = s
                 \/ <<child, s>> \in moved'
        <3>1. Listed(messages[s], children'[s], child) \/ (child = t /\ s = above)
            BY <1>9, <2>1
        <3> QED
            BY <1>0, <1>1, <2>1, <3>1 DEF ReadyFor
    <2> QED
        BY <2>1, Zenon DEF Belonging
<1> QED
    BY <1>6, <1>7, <1>8, <1>10, <1>11 DEF HierarchyInv

(* A thing that is new registers, unless it has no place.                  *)
LEMMA NewRegisters ==
    ASSUME HierarchyInv, NEW t \in Things \ things
    PROVE  /\ Above(t, group) # None => Registers(t, group)
           /\ parent[t] = None
BY DEF HierarchyInv, Absent, Above, Registers

LEMMA CreateKeeps == ASSUME HierarchyInv, NEW t \in Things, Create(t) PROVE HierarchyInv'
<1>1. /\ t \notin things /\ things' = things \cup {t} /\ Changed(t, group, inbox)
      /\ UNCHANGED <<children, moved, deleted>>
    BY DEF Create
<1>2. /\ Above(t, group) # None => Registers(t, group)
      /\ parent[t] = None
    BY <1>1, NewRegisters
<1>3. /\ \A other \in Things \ things' :
             /\ parent[other] = None /\ children'[other] = {} /\ other \notin annotated
             /\ other.kind = "device" => group[other.name] = None
      /\ \A other \in things' : other # t \/ Above(t, group) = None => Stands(other, group, moved')
    BY <1>1, <1>2 DEF HierarchyInv, Absent, Placed, Stands
<1>4. \A other \in things' :
          Above(other, group) # None /\ (other # t \/ ~Registers(t, group)) =>
              \/ Above(other, group) \in deleted'
              \/ Listed(inbox[Above(other, group)], children'[Above(other, group)], other)
    BY <1>1, <1>2 DEF HierarchyInv, Registered
<1>5. \A s, child \in Things :
          Listed(inbox[s], children'[s], child) =>
              \/ child \in things' /\ Above(child, group) = s
              \/ <<child, s>> \in moved'
    BY <1>1 DEF HierarchyInv, Belonging
<1>6. ReadyFor(t, group, inbox, things', children', deleted', moved')
    BY <1>1, <1>3, <1>4, <1>5 DEF ReadyFor, HierarchyInv, Types
<1> QED
    BY <1>1, <1>6, ChangedKeeps

LEMMA ReportKeeps == ASSUME HierarchyInv, NEW t \in Things, Report(t) PROVE HierarchyInv'
<1>1. t \in things /\ Changed(t, group, inbox) /\ UNCHANGED <<things, children, moved, deleted>>
    BY DEF Report
<1>2. /\ \A other \in Things \ things' :
             /\ parent[other] = None /\ children'[other] = {} /\ other \notin annotated
             /\ other.kind = "device" => group[other.name] = None
      /\ \A other \in things' : other # t \/ Above(t, group) = None => Stands(other, group, moved')
    BY <1>1 DEF HierarchyInv, Absent, Placed, Stands
<1>3. \A other \in things' :
          Above(other, group) # None /\ (other # t \/ ~Registers(t, group)) =>
              \/ Above(other, group) \in deleted'
              \/ Listed(inbox[Above(other, group)], children'[Above(other, group)], other)
    BY <1>1 DEF HierarchyInv, Registered
<1>4. \A s, child \in Things :
          Listed(inbox[s], children'[s], child) =>
              \/ child \in things' /\ Above(child, group) = s
              \/ <<child, s>> \in moved'
    BY <1>1 DEF HierarchyInv, Belonging
<1>6. ReadyFor(t, group, inbox, things', children', deleted', moved')
    BY <1>1, <1>2, <1>3, <1>4 DEF ReadyFor, HierarchyInv, Types
<1> QED
    BY <1>1, <1>6, ChangedKeeps

LEMMA SetGroupKeeps ==
    ASSUME HierarchyInv, NEW d \in Devices, NEW annotation \in Annotation \cup {None}, SetGroup(d, annotation)
    PROVE  HierarchyInv'
<1> PICK t : t = Device(d)
    OBVIOUS
<1> PICK groups : groups = [group EXCEPT ![d] = annotation]
    OBVIOUS
<1>1. /\ t \in things /\ Changed(t, groups, inbox) /\ UNCHANGED <<things, children, deleted>>
      /\ moved' = IF group[d] # None /\ (annotation = None \/ group[d].path # annotation.path)
                  THEN moved \cup {<<t, Group(group[d].path)>>} ELSE moved
      /\ group[d] # annotation
    BY DEF SetGroup
<1>2. t \in Things /\ t.kind = "device" /\ t.name = d
    BY DeviceThing DEF Device, Things
<1>3. /\ groups \in [Devices -> Annotation \cup {None}] /\ groups[d] = annotation
      /\ \A other \in Devices : other # d => groups[other] = group[other]
    BY DEF HierarchyInv, Types
<1>4. \A other \in Things : other # t => Above(other, groups) = Above(other, group)
    <2> SUFFICES ASSUME NEW other \in Things, other # t
                 PROVE  Above(other, groups) = Above(other, group)
        OBVIOUS
    <2>1. other.kind = "device" => groups[other.name] = group[other.name]
        BY <1>3, DeviceThing
    <2> QED
        BY <2>1, SamePlace
<1>5. /\ annotation # None => Above(t, groups) = Group(annotation.path) /\ Above(t, groups) # None
      /\ annotation = None => Above(t, groups) = None
      /\ group[d] = None => Above(t, group) = None
      /\ group[d] # None => Above(t, group) = Group(group[d].path)
    <2>1. /\ annotation # None => Above(t, groups) = Group(annotation.path)
          /\ annotation = None => Above(t, groups) = None
        BY <1>2, <1>3, NoneAssumption DEF Above
    <2>2. annotation # None => annotation.path \in Paths
        BY DEF Annotation
    <2> QED
        BY <1>2, <2>1, <2>2, NoneAssumption DEF Above, Things
<1>6. /\ \A other \in Things \ things' :
             /\ parent[other] = None /\ children'[other] = {} /\ other \notin annotated
             /\ other.kind = "device" => groups[other.name] = None
      /\ \A other \in things' : other # t \/ Above(t, groups) = None => Stands(other, groups, moved')
    <2>1. ASSUME NEW other \in Things \ things', other.kind = "device" PROVE groups[other.name] = None
        BY <1>1, <1>3, <2>1, DeviceThing DEF HierarchyInv, Absent
    <2>2. ASSUME NEW other \in things', other # t PROVE Stands(other, groups, moved')
        BY <1>1, <1>4, <2>2 DEF HierarchyInv, Types, Placed, Stands
    <2>3. ASSUME Above(t, groups) = None PROVE Stands(t, groups, moved')
        <3>1. annotation = None /\ group[d] # None /\ Above(t, group) = Group(group[d].path)
            BY <1>1, <1>5, <2>3
        <3>2. Above(t, group) # None
            <4>1. group[d] \in Annotation
                BY <3>1 DEF HierarchyInv, Types
            <4> QED
                BY <3>1, <4>1, NoneAssumption DEF Annotation, Things
        <3>3. parent[t] = Group(group[d].path)
            BY <1>1, <3>1, <3>2 DEF HierarchyInv, Placed, Stands
        <3> QED
            BY <1>1, <2>3, <3>1, <3>3 DEF Stands
    <2> QED
        BY <1>1, <2>1, <2>2, <2>3 DEF HierarchyInv, Absent
<1>7. \A other \in things' :
          Above(other, groups) # None /\ (other # t \/ ~Registers(t, groups)) =>
              \/ Above(other, groups) \in deleted'
              \/ Listed(inbox[Above(other, groups)], children'[Above(other, groups)], other)
    <2>1. ~Registers(t, groups) /\ Above(t, groups) # None => Above(t, groups) = Above(t, group)
        BY <1>2, <1>3, <1>5 DEF Registers
    <2>2. \A other \in things' :
              Above(other, groups) # None /\ (other # t \/ ~Registers(t, groups)) =>
                  Above(other, groups) = Above(other, group)
        BY <1>1, <1>4, <2>1 DEF HierarchyInv, Types
    <2> QED
        BY <1>1, <2>2 DEF HierarchyInv, Registered
<1>8. ASSUME NEW s \in Things, NEW child \in Things, Listed(inbox[s], children'[s], child)
      PROVE  \/ child \in things' /\ Above(child, groups) = s
             \/ <<child, s>> \in moved'
    <2>1. \/ child \in things /\ Above(child, group) = s
          \/ <<child, s>> \in moved
        BY <1>1, <1>8 DEF HierarchyInv, Belonging
    <2>2. CASE child = t /\ Above(t, group) = s
        <3>1. group[d] # None /\ s = Group(group[d].path)
            BY <1>5, <2>2, NoneAssumption
        <3>2. CASE annotation = None \/ group[d].path # annotation.path
            BY <1>1, <2>2, <3>1, <3>2
        <3>3. CASE annotation # None /\ group[d].path = annotation.path
            BY <1>1, <1>5, <2>2, <3>1, <3>3
        <3> QED
            BY <3>2, <3>3
    <2> QED
        BY <1>1, <1>4, <2>1, <2>2
<1>9. /\ t \in Things /\ t \in things' /\ things' \subseteq Things /\ Changed(t, groups, inbox)
      /\ children' \in [Things -> SUBSET Things] /\ Box(inbox)
      /\ DOMAIN parent = Things /\ parent = [s \in Things |-> parent[s]]
      /\ groups \in [Devices -> Annotation \cup {None}]
    BY <1>1, <1>2, <1>3 DEF HierarchyInv, Types
<1>10. \A s, child \in Things :
          Listed(inbox[s], children'[s], child) =>
              \/ child \in things' /\ Above(child, groups) = s
              \/ <<child, s>> \in moved'
    BY <1>8
<1>11. ReadyFor(t, groups, inbox, things', children', deleted', moved')
    BY <1>6, <1>7, <1>9, <1>10 DEF ReadyFor
<1> QED
    BY <1>9, <1>11, ChangedKeeps

LEMMA DeleteKeeps == ASSUME HierarchyInv, NEW t \in Things, Delete(t) PROVE HierarchyInv'
<1> PICK above : above = Above(t, group)
    OBVIOUS
<1> PICK m : m = Message(FALSE, t)
    OBVIOUS
<1>1. /\ t \in things /\ things' = things \ {t} /\ annotated' = annotated \ {t}
      /\ inbox' = IF above # None THEN [inbox EXCEPT ![above] = Append(@, m)] ELSE inbox
      /\ group' = IF t.kind = "device" THEN [group EXCEPT ![t.name] = None] ELSE group
      /\ parent' = [parent EXCEPT ![t] = None] /\ children' = [children EXCEPT ![t] = {}]
      /\ deleted' = deleted \cup {t} /\ UNCHANGED moved
    BY DEF Delete, Deleting
<1>2. /\ Types /\ group \in [Devices -> Annotation \cup {None}] /\ things \subseteq Things
      /\ m.register = FALSE /\ m.child = t
      /\ above # None => above \in Things
    BY AboveThing DEF HierarchyInv, Types, Message
<1>3. /\ group' \in [Devices -> Annotation \cup {None}]
      /\ \A d \in Devices : Device(d) # t => group'[d] = group[d]
      /\ t.kind = "device" => group'[t.name] = None
    <2>1. CASE t.kind = "device"
        <3>1. t.name \in Devices /\ t = Device(t.name)
            BY <2>1, DeviceThing
        <3> QED
            BY <1>1, <1>2, <2>1, <3>1
    <2>2. CASE t.kind # "device"
        BY <1>1, <1>2, <2>2
    <2> QED
        BY <2>1, <2>2
<1>4. \A other \in Things : other # t => Above(other, group') = Above(other, group)
    <2> SUFFICES ASSUME NEW other \in Things, other # t
                 PROVE  Above(other, group') = Above(other, group)
        OBVIOUS
    <2>1. other.kind = "device" => group'[other.name] = group[other.name]
        BY <1>3, DeviceThing
    <2> QED
        BY <2>1, SamePlace
<1>5. Box(inbox')
    <2>1. above # None => Box([inbox EXCEPT ![above] = Append(@, m)])
        <3>1. m.child \in Things /\ Box(inbox)
            BY <1>2 DEF Types
        <3> QED
            BY <1>2, <3>1, PutIn, Zenon
    <2> QED
        BY <1>1, <1>2, <2>1 DEF Types
<1>6. Types'
    BY <1>1, <1>2, <1>3, <1>5 DEF Types
<1>7. Absent'
    <2>1. ASSUME NEW other \in Things \ things'
          PROVE  /\ parent'[other] = None /\ children'[other] = {} /\ other \notin annotated'
                 /\ other.kind = "device" => group'[other.name] = None
        <3>1. CASE other = t
            BY <1>1, <1>2, <1>3, <3>1 DEF Types
        <3>2. CASE other # t
            <4>1. other.kind = "device" => other.name \in Devices /\ Device(other.name) = other
                BY DeviceThing
            <4> QED
                BY <1>1, <1>2, <1>3, <3>2, <4>1 DEF Types, HierarchyInv, Absent
        <3> QED
            BY <3>1, <3>2
    <2> QED
        BY <2>1 DEF Absent
<1>8. Placed'
    BY <1>1, <1>2, <1>4 DEF Placed, Stands, Types, HierarchyInv
<1>9. ASSUME NEW s \in Things, NEW child \in Things
      PROVE  /\ Listed(inbox'[s], children'[s], child) => Listed(inbox[s], children[s], child)
             /\ s = above => ~Listed(inbox'[s], children'[s], t)
             /\ s # t /\ child # t /\ Listed(inbox[s], children[s], child) => Listed(inbox'[s], children'[s], child)
    <2> PICK q : q = inbox[s]
        OBVIOUS
    <2> PICK kids : kids = children[s]
        OBVIOUS
    <2> PICK after : after = children'[s]
        OBVIOUS
    <2>1. /\ IsSequence(q) /\ after = IF s = t THEN {} ELSE kids
          /\ inbox'[s] = q \/ (s = above /\ inbox'[s] = Append(q, m))
          /\ s = above => inbox'[s] = Append(q, m)
        BY <1>1, <1>2, NoneAssumption DEF Types, Box
    <2>2. Listed(q, after, child) => Listed(q, kids, child)
        BY <2>1 DEF Listed
    <2>3. /\ ~Listed(Append(q, m), after, t)
          /\ child # t => (Listed(Append(q, m), after, child) <=> Listed(q, after, child))
        BY <1>2, <2>1, ListedAppend
    <2> QED
        BY <2>1, <2>2, <2>3
<1>10. Registered'
    <2>1. ASSUME NEW other \in things', Above(other, group') # None, Above(other, group') \notin deleted'
          PROVE  Listed(inbox'[Above(other, group')], children'[Above(other, group')], other)
        <3> PICK s : s = Above(other, group)
            OBVIOUS
        <3>1. other # t /\ other \in things /\ other \in Things /\ Above(other, group') = s
            BY <1>1, <1>2, <1>4
        <3>2. s \in Things /\ s # t /\ s \notin deleted
            BY <1>1, <1>2, <2>1, <3>1, AboveThing
        <3>3. Listed(inbox[s], children[s], other)
            BY <2>1, <3>1, <3>2 DEF HierarchyInv, Registered
        <3> QED
            BY <1>9, <3>1, <3>2, <3>3
    <2> QED
        BY <2>1, Zenon DEF Registered
<1>11. Belonging'
    <2>1. ASSUME NEW s \in Things, NEW child \in Things, Listed(inbox'[s], children'[s], child)
          PROVE  \/ child \in things' /\ Above(child, group') = s
                 \/ <<child, s>> \in moved'
        <3>1. \/ child \in things /\ Above(child, group) = s
              \/ <<child, s>> \in moved
            BY <1>9, <2>1 DEF HierarchyInv, Belonging
        <3>2. child = t => s # above
            BY <1>9, <2>1
        <3> QED
            BY <1>1, <1>4, <3>1, <3>2
    <2> QED
        BY <2>1, Zenon DEF Belonging
<1> QED
    BY <1>6, <1>7, <1>8, <1>10, <1>11 DEF HierarchyInv

(* A message delivered changes what is listed now, and nothing else.       *)
LEMMA DeliverKeeps == ASSUME HierarchyInv, NEW t \in Things, Deliver(t) PROVE HierarchyInv'
<1> PICK message : message = Head(inbox[t])
    OBVIOUS
<1> PICK rest : rest = [inbox EXCEPT ![t] = Tail(@)]
    OBVIOUS
<1> PICK after : after = [children EXCEPT ![t] = IF message.register THEN @ \cup {message.child}
                                                 ELSE @ \ {message.child}]
    OBVIOUS
<1>1. /\ inbox[t] # <<>> /\ UNCHANGED <<moved, deleted>>
      /\ \/ /\ message.register \/ t \in things
            /\ things' = things \cup {t} /\ children' = after /\ Changed(t, group, rest)
         \/ /\ ~message.register /\ t \notin things
            /\ inbox' = rest /\ UNCHANGED <<things, children, group, annotated, parent>>
    BY DEF Deliver
<1>2. /\ Types /\ things \subseteq Things /\ group \in [Devices -> Annotation \cup {None}] /\ Box(inbox)
      /\ children \in [Things -> SUBSET Things]
    BY DEF HierarchyInv, Types
<1>3. /\ IsSequence(inbox[t]) /\ IsSequence(Tail(inbox[t])) /\ message.child \in Things
      /\ \A i \in 1..Len(Tail(inbox[t])) : Tail(inbox[t])[i].child \in Things
    BY <1>1, <1>2, TailChild DEF Box
<1>4. Box(rest) /\ after \in [Things -> SUBSET Things] /\ \A s \in Things \ {t} : after[s] = children[s]
    <2>1. /\ DOMAIN rest = Things /\ rest = [s \in Things |-> rest[s]]
          /\ \A s \in Things : rest[s] = IF s = t THEN Tail(inbox[t]) ELSE inbox[s]
        BY <1>2 DEF Box
    <2>2. Box(rest)
        BY <1>2, <1>3, <2>1 DEF Box
    <2>3. after \in [Things -> SUBSET Things] /\ \A s \in Things \ {t} : after[s] = children[s]
        BY <1>2, <1>3
    <2> QED
        BY <2>2, <2>3
<1>5. \A s, child \in Things : Listed(rest[s], after[s], child) <=> Listed(inbox[s], children[s], child)
    <2> SUFFICES ASSUME NEW s \in Things, NEW child \in Things
                 PROVE  Listed(rest[s], after[s], child) <=> Listed(inbox[s], children[s], child)
        OBVIOUS
    <2>1. CASE s # t
        BY <1>2, <2>1 DEF Box
    <2>2. CASE s = t
        <3>1. /\ rest[t] = Tail(inbox[t])
              /\ after[t] = IF Head(inbox[t]).register THEN children[t] \cup {Head(inbox[t]).child}
                            ELSE children[t] \ {Head(inbox[t]).child}
            BY <1>2 DEF Box
        <3> QED
            BY <1>1, <1>3, <2>2, <3>1, ListedTail
    <2> QED
        BY <2>1, <2>2
<1>6. CASE ~message.register /\ t \notin things /\ inbox' = rest /\ UNCHANGED <<things, children, group, annotated, parent>>
    <2>1. after = children
        BY <1>2, <1>6 DEF HierarchyInv, Absent
    <2>2. \A s \in Things, child \in Things : Listed(inbox'[s], children'[s], child) <=> Listed(inbox[s], children[s], child)
        BY <1>5, <1>6, <2>1
    <2>3. Types' /\ Absent' /\ Placed'
        BY <1>1, <1>2, <1>4, <1>6 DEF HierarchyInv, Types, Absent, Placed, Stands
    <2>4. Registered'
        <3>1. ASSUME NEW other \in things', Above(other, group') # None, Above(other, group') \notin deleted'
              PROVE  Listed(inbox'[Above(other, group')], children'[Above(other, group')], other)
            <4>1. other \in things /\ other \in Things /\ Above(other, group') = Above(other, group)
                BY <1>2, <1>6
            <4>2. Above(other, group) \in Things
                BY <1>2, <3>1, <4>1, AboveThing
            <4>3. Listed(inbox[Above(other, group)], children[Above(other, group)], other)
                BY <1>1, <3>1, <4>1 DEF HierarchyInv, Registered
            <4> QED
                BY <2>2, <4>1, <4>2, <4>3
        <3> QED
            BY <3>1, Zenon DEF Registered
    <2>5. Belonging'
        <3>1. ASSUME NEW s \in Things, NEW child \in Things, Listed(inbox'[s], children'[s], child)
              PROVE  \/ child \in things' /\ Above(child, group') = s
                     \/ <<child, s>> \in moved'
            BY <1>1, <1>6, <2>2, <3>1 DEF HierarchyInv, Belonging
        <3> QED
            BY <3>1, Zenon DEF Belonging
    <2> QED
        BY <2>3, <2>4, <2>5 DEF HierarchyInv
<1>7. CASE things' = things \cup {t} /\ children' = after /\ Changed(t, group, rest)
    <2>1. t \notin things => (Above(t, group) # None => Registers(t, group)) /\ parent[t] = None
        BY NewRegisters
    <2>2. /\ \A other \in Things \ things' :
                 /\ parent[other] = None /\ children'[other] = {} /\ other \notin annotated
                 /\ other.kind = "device" => group[other.name] = None
          /\ \A other \in things' : other # t \/ Above(t, group) = None => Stands(other, group, moved')
        BY <1>1, <1>4, <1>7, <2>1 DEF HierarchyInv, Absent, Placed, Stands
    <2>3. ASSUME NEW other \in things', Above(other, group) # None, other # t \/ ~Registers(t, group)
          PROVE  \/ Above(other, group) \in deleted'
                 \/ Listed(rest[Above(other, group)], children'[Above(other, group)], other)
        <3>1. other \in things /\ other \in Things
            BY <1>2, <1>7, <2>1, <2>3
        <3>2. Above(other, group) \in Things
            BY <1>2, <2>3, <3>1, AboveThing
        <3>3. Above(other, group) \in deleted \/ Listed(inbox[Above(other, group)], children[Above(other, group)], other)
            BY <2>3, <3>1 DEF HierarchyInv, Registered
        <3> QED
            BY <1>1, <1>5, <1>7, <3>1, <3>2, <3>3
    <2>4. ASSUME NEW s \in Things, NEW child \in Things, Listed(rest[s], children'[s], child)
          PROVE  \/ child \in things' /\ Above(child, group) = s
                 \/ <<child, s>> \in moved'
        BY <1>1, <1>5, <1>7, <2>4 DEF HierarchyInv, Belonging
    <2>5. /\ t \in things' /\ things' \subseteq Things /\ children' \in [Things -> SUBSET Things]
          /\ DOMAIN parent = Things /\ parent = [s \in Things |-> parent[s]]
        BY <1>2, <1>4, <1>7 DEF Types
    <2>6. \A other \in things' :
              Above(other, group) # None /\ (other # t \/ ~Registers(t, group)) =>
                  \/ Above(other, group) \in deleted'
                  \/ Listed(rest[Above(other, group)], children'[Above(other, group)], other)
        BY <2>3
    <2>7. \A s, child \in Things :
              Listed(rest[s], children'[s], child) =>
                  \/ child \in things' /\ Above(child, group) = s
                  \/ <<child, s>> \in moved'
        BY <2>4
    <2>8. ReadyFor(t, group, rest, things', children', deleted', moved')
        BY <1>2, <1>4, <2>2, <2>5, <2>6, <2>7 DEF ReadyFor
    <2> QED
        BY <1>7, <2>8, ChangedKeeps
<1> QED
    BY <1>1, <1>6, <1>7

-----------------------------------------------------------------------------
LEMMA InitHierarchy == ASSUME Init PROVE HierarchyInv
<1>1. /\ things = {} /\ group = [d \in Devices |-> None] /\ annotated = {}
      /\ parent = [t \in Things |-> None] /\ children = [t \in Things |-> {}]
      /\ inbox = [t \in Things |-> <<>>]
    BY DEF Init
<1>2. Types
    BY <1>1, Emptied DEF Types, Box
<1>3. Absent
    BY <1>1, DeviceThing DEF Absent
<1>4. Belonging
    BY <1>1, ListedEmpty DEF Belonging
<1> QED
    BY <1>1, <1>2, <1>3, <1>4 DEF HierarchyInv, Placed, Registered

LEMMA StutterHierarchy == ASSUME HierarchyInv, UNCHANGED vars PROVE HierarchyInv'
<1>1. UNCHANGED <<things, group, annotated, parent, children, inbox, moved, deleted>>
    BY DEF vars
<1>2. Types' /\ Absent' /\ Placed'
    BY <1>1 DEF HierarchyInv, Types, Absent, Placed, Stands
<1>3. Registered'
    BY <1>1 DEF HierarchyInv, Registered
<1>4. Belonging'
    BY <1>1 DEF HierarchyInv, Belonging
<1> QED
    BY <1>2, <1>3, <1>4 DEF HierarchyInv

THEOREM HierarchyInvariant == Spec => []HierarchyInv
<1>1. Init => HierarchyInv
    BY InitHierarchy
<1>2. HierarchyInv /\ [Next]_vars => HierarchyInv'
    BY StutterHierarchy, CreateKeeps, ReportKeeps, SetGroupKeeps, DeleteKeeps, DeliverKeeps DEF Next
<1> QED
    BY <1>1, <1>2, PTL DEF Spec

(* When all messages are delivered, what says what its $parent is stands   *)
(* among the children of that thing, which exists, unless it was deleted;  *)
(* only a device whose annotation was removed says a group it has left.    *)
THEOREM AllAttached == Spec => []Attached
<1>1. ASSUME HierarchyInv PROVE Attached
    <2> SUFFICES ASSUME Quiet, NEW t \in things
                 PROVE  /\ \/ parent[t] = Above(t, group)
                           \/ Above(t, group) = None /\ <<t, parent[t]>> \in moved
                        /\ Above(t, group) # None =>
                               \/ Above(t, group) \in deleted
                               \/ Above(t, group) \in things /\ t \in children[Above(t, group)]
        BY DEF Attached
    <2>1. parent[t] = Above(t, group) \/ (Above(t, group) = None /\ <<t, parent[t]>> \in moved)
        BY <1>1 DEF HierarchyInv, Placed, Stands
    <2>2. ASSUME Above(t, group) # None, Above(t, group) \notin deleted
          PROVE  Above(t, group) \in things /\ t \in children[Above(t, group)]
        <3>1. Above(t, group) \in Things
            BY <1>1, <2>2, AboveThing DEF HierarchyInv, Types
        <3>2. Listed(<<>>, children[Above(t, group)], t)
            BY <1>1, <2>2, <3>1 DEF HierarchyInv, Registered, Quiet
        <3>3. t \in children[Above(t, group)]
            BY <3>2, ListedEmpty
        <3> QED
            BY <1>1, <3>1, <3>3 DEF HierarchyInv, Absent
    <2> QED
        BY <2>1, <2>2
<1> QED
    BY <1>1, HierarchyInvariant, PTL

(* ... and no thing lists a child that was deleted or belongs elsewhere,   *)
(* except a group that a device has left.                                  *)
THEOREM NothingElseListed == Spec => []NoGhosts
<1>1. ASSUME HierarchyInv PROVE NoGhosts
    <2> SUFFICES ASSUME Quiet, NEW t \in things, NEW child \in children[t]
                 PROVE  \/ child \in things /\ Above(child, group) = t
                        \/ <<child, t>> \in moved
        BY DEF NoGhosts
    <2>1. t \in Things /\ child \in Things
        BY <1>1 DEF HierarchyInv, Types
    <2>2. Listed(inbox[t], children[t], child)
        BY <2>1, ListedEmpty DEF Quiet
    <2> QED
        BY <1>1, <2>1, <2>2 DEF HierarchyInv, Belonging
<1> QED
    BY <1>1, HierarchyInvariant, PTL
=============================================================================
