----------------------------- MODULE Hierarchy -----------------------------
(***************************************************************************)
(* The reconciliation script of the digital twin (twin/hierarchy.js), which*)
(* every thing runs on each of its changes and when it is deleted: a group *)
(* registers as a child of the group above it, a device as one of its      *)
(* group, a channel as one of its device.                                  *)
(*                                                                         *)
(* The service around the script is external: it runs the script within    *)
(* the change, delivers the messages of the script in order to each thing, *)
(* keeps $children, and creates a thing from the template when a child     *)
(* registers with one that does not exist.                                 *)
(***************************************************************************)
EXTENDS Naturals, Sequences

CONSTANTS
    Paths,     \* of groups, sequences of names; <<>> is "/"
    Devices,
    Channels,  \* pairs of a device and the name of a channel
    MaxCalls,  \* bound: requests to the service
    None

ASSUME HierarchyAssumption ==
    /\ \A p \in Paths : p # <<>> => SubSeq(p, 1, Len(p) - 1) \in Paths
    /\ \A c \in Channels : c[1] \in Devices
    /\ MaxCalls \in Nat

Group(path)   == [kind |-> "group", name |-> path]
Device(d)     == [kind |-> "device", name |-> d]
Channel(c)    == [kind |-> "channel", name |-> c]
Things == {Group(p) : p \in Paths} \cup {Device(d) : d \in Devices} \cup {Channel(c) : c \in Channels}

VARIABLES
    things,    \* those that exist
    group,     \* of each device: the annotation io.drogue/group, None if not set
    annotated, \* groups and channels that have their annotations
    parent,    \* of each thing: $parent in its reported state, None if not set
    children,  \* of each thing: $children in its reported state
    inbox,     \* of each thing: messages registerChild and unregisterChild
    moved,     \* devices taken out of a group, each with the group it left
    deleted,   \* things that were deleted
    calls

vars == <<things, group, annotated, parent, children, inbox, moved, deleted, calls>>

(* The annotation as it was entered: "a/b", or "/a/b", which normalize     *)
(* makes the same path.  "" and "/" are the root.                          *)
Annotation == [path : Paths, slash : BOOLEAN]
ASSUME NoneAssumption == None \notin Annotation \cup Things

Init ==
    /\ things = {} /\ group = [d \in Devices |-> None] /\ annotated = {}
    /\ parent = [t \in Things |-> None] /\ children = [t \in Things |-> {}]
    /\ inbox = [t \in Things |-> <<>>]
    /\ moved = {} /\ deleted = {} /\ calls = 0

-----------------------------------------------------------------------------
(* The script.                                                             *)

(* The thing that t belongs below, None if there is none: parentGroup, the *)
(* device in the name of a channel, the group a device is annotated with.  *)
Above(t, groups) ==
    CASE t.kind = "group"   -> IF t.name = <<>> THEN None ELSE Group(SubSeq(t.name, 1, Len(t.name) - 1))
      [] t.kind = "channel" -> Device(t.name[1])
      [] t.kind = "device"  -> IF groups[t.name] = None THEN None ELSE Group(groups[t.name].path)

\* Mutant: a device registers only when it had no group.
RegistersOnce(t, groups) ==
    IF t.kind = "device" THEN group[t.name] = None ELSE t \notin annotated

(* A device registers when its annotation was not this normalized group    *)
(* before, the others when theirs were not set.                            *)
Registers(t, groups) ==
    IF t.kind = "device"
    THEN LET before == group[t.name] IN
         before = None \/ before.slash \/ before.path # groups[t.name].path
    ELSE t \notin annotated

Message(register, child) == [register |-> register, child |-> child]

(* context.action "changed", with these annotations of the devices: what t *)
(* becomes, and the messages under way.                                    *)
Changed(t, groups, messages) ==
    LET above == Above(t, groups) IN
    /\ group' = groups
    /\ annotated' = IF above # None /\ t.kind # "device" THEN annotated \cup {t} ELSE annotated
    /\ parent' = IF above # None THEN [parent EXCEPT ![t] = above] ELSE parent
    /\ inbox' = IF above # None /\ Registers(t, groups)
                THEN [messages EXCEPT ![above] = Append(@, Message(TRUE, t))] ELSE messages

\* Mutant: a channel does not unregister.
LeavesSilently(t) ==
    inbox' = IF t.kind # "channel" /\ Above(t, group) # None
             THEN [inbox EXCEPT ![Above(t, group)] = Append(@, Message(FALSE, t))] ELSE inbox

(* context.action "deleting"                                               *)
Deleting(t) ==
    inbox' = IF Above(t, group) # None
             THEN [inbox EXCEPT ![Above(t, group)] = Append(@, Message(FALSE, t))] ELSE inbox

-----------------------------------------------------------------------------
(* The requests of the users and of the event stream.                      *)

Request == calls < MaxCalls /\ calls' = calls + 1

Create(t) ==
    /\ Request
    /\ t \notin things /\ things' = things \cup {t}
    /\ Changed(t, group, inbox)
    /\ UNCHANGED <<children, moved, deleted>>

(* The annotation is replaced, or removed (None): then the script does     *)
(* nothing, and $parent keeps its value.                                   *)
SetGroup(d, annotation) ==
    /\ Request
    /\ Device(d) \in things /\ group[d] # annotation
    /\ Changed(Device(d), [group EXCEPT ![d] = annotation], inbox)
    /\ moved' = IF group[d] # None /\ (annotation = None \/ group[d].path # annotation.path)
                THEN moved \cup {<<Device(d), Group(group[d].path)>>} ELSE moved
    /\ UNCHANGED <<things, children, deleted>>

(* Any change of a thing, a value it reports for one, runs the script.     *)
Report(t) ==
    /\ Request
    /\ t \in things
    /\ Changed(t, group, inbox)
    /\ UNCHANGED <<things, children, moved, deleted>>

Delete(t) ==
    /\ Request
    /\ t \in things /\ things' = things \ {t}
    /\ Deleting(t)
    /\ group' = IF t.kind = "device" THEN [group EXCEPT ![t.name] = None] ELSE group
    /\ annotated' = annotated \ {t}
    /\ parent' = [parent EXCEPT ![t] = None] /\ children' = [children EXCEPT ![t] = {}]
    /\ deleted' = deleted \cup {t}
    /\ UNCHANGED moved

(* The service delivers a message; what it does to $children is a change.  *)
Deliver(t) ==
    /\ inbox[t] # <<>>
    /\ LET message == Head(inbox[t])
           rest == [inbox EXCEPT ![t] = Tail(@)] IN
       IF message.register \/ t \in things
       THEN /\ things' = things \cup {t}
            /\ children' = [children EXCEPT ![t] = IF message.register THEN @ \cup {message.child}
                                                   ELSE @ \ {message.child}]
            /\ Changed(t, group, rest)
       ELSE inbox' = rest /\ UNCHANGED <<things, children, group, annotated, parent>>
    /\ UNCHANGED <<moved, deleted, calls>>

Next ==
    \/ \E t \in Things : Create(t) \/ Report(t) \/ Delete(t) \/ Deliver(t)
    \/ \E d \in Devices, annotation \in Annotation \cup {None} : SetGroup(d, annotation)

Spec == Init /\ [][Next]_vars

-----------------------------------------------------------------------------
Quiet == \A t \in Things : inbox[t] = <<>>

(* When all messages are delivered, a thing that says what its $parent is  *)
(* stands among the children of that thing, which exists, up to the root:  *)
(* however creations, changes of the group and registrations interleave.   *)
(* Two exceptions: a parent that was deleted, whose children are annotated *)
(* already and do not register again (registerChannel, registerGroup); and *)
(* a device without annotation, whose $parent may be a group it has left.  *)
Attached ==
    Quiet =>
        \A t \in things :
            LET above == Above(t, group) IN
            /\ parent[t] = above \/ (above = None /\ <<t, parent[t]>> \in moved)
            /\ above # None => above \in deleted \/ (above \in things /\ t \in children[above])

(* ... and no thing lists a child that was deleted or belongs elsewhere,   *)
(* except a group that a device has left ("need to unregister previous     *)
(* state first, if it changed").                                           *)
NoGhosts ==
    Quiet =>
        \A t \in things : \A child \in children[t] :
            (child \in things /\ Above(child, group) = t) \/ <<child, t>> \in moved
=============================================================================
