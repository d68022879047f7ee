------------------------------ MODULE Updates ------------------------------
(***************************************************************************)
(* The dashboard's open pages (Updates, StateHolder).  Every new state is  *)
(* rendered for every page and pushed to it, at most once a second; what   *)
(* is held back is pushed by a ticker.  A page may ask for another sorting *)
(* and is then pushed at once.                                             *)
(*                                                                         *)
(* Three kinds of threads work on the unsynchronised fields of a page's    *)
(* Connection: the one that sets the state, the ticker, and the page's own *)
(* WebSocket thread.  A thread renders, keeps the result, and sends, in    *)
(* separate steps.  A field written by one thread is read by the next.     *)
(*                                                                         *)
(* A state is abstracted to its version; different versions and different  *)
(* sortings render differently.                                            *)
(***************************************************************************)
EXTENDS Naturals

CONSTANTS
    Pages,      \* browser pages, each opened once; also their threads
    Sortings,   \* column and direction
    MaxVersion, \* bound: states set
    source,     \* the thread that sets the state
    ticker,     \* the scheduler's thread
    None

Threads == Pages \cup {source, ticker}

ASSUME ThreadsAssumption == source \notin Pages /\ ticker \notin Pages /\ source # ticker
ASSUME NoneAssumption    == None \notin Pages
ASSUME ContentAssumption == Sortings # {} /\ MaxVersion \in Nat

VARIABLES
    version,    \* StateHolder: the current state
    connections,\* registered pages
    todo,       \* registered pages the current update has not reached
    page,       \* "new", "opening", "open" or "closed"
    sortBy, lastContent, needSend,  \* the fields of Connection
    held,       \* nextSend has not passed yet
    shown,      \* what was pushed to the page last
    at, on,     \* where a thread is, and the page it works on
    rendered,   \* what it has rendered
    missed,     \* pages an update went past while they were being opened
    crossed     \* pages two renderings of which have overlapped

connection == <<sortBy, lastContent, needSend, held, shown>>
thread     == <<at, on, rendered>>
ghost      == <<missed, crossed>>
vars == <<version, connections, todo, page, connection, thread, ghost>>

Content == [version : 0..MaxVersion, sorting : Sortings]

TypeOK ==
    /\ version \in 0..MaxVersion
    /\ connections \subseteq Pages /\ todo \subseteq Pages
    /\ page        \in [Pages -> {"new", "opening", "open", "closed"}]
    /\ sortBy      \in [Pages -> Sortings]
    /\ lastContent \in [Pages -> Content \cup {None}]
    /\ shown       \in [Pages -> Content \cup {None}]
    /\ needSend    \in [Pages -> BOOLEAN] /\ held \in [Pages -> BOOLEAN]
    /\ at          \in [Threads -> {"idle", "render", "keep", "send", "push", "hold", "put"}]
    /\ on          \in [Threads -> Pages \cup {None}]
    /\ rendered    \in [Threads -> Content \cup {None}]
    /\ missed \subseteq Pages /\ crossed \subseteq Pages

Init ==
    /\ version = 0
    /\ connections = {} /\ todo = {}
    /\ page        = [p \in Pages |-> "new"]
    /\ sortBy      = [p \in Pages |-> CHOOSE s \in Sortings : TRUE]
    /\ lastContent = [p \in Pages |-> None]
    /\ shown       = [p \in Pages |-> None]
    /\ needSend    = [p \in Pages |-> FALSE]
    /\ held        = [p \in Pages |-> FALSE]
    /\ at          = [t \in Threads |-> "idle"]
    /\ on          = [t \in Threads |-> None]
    /\ rendered    = [t \in Threads |-> None]
    /\ missed = {} /\ crossed = {}

Goto(t, step, p) ==
    /\ at' = [at EXCEPT ![t] = step]
    /\ on' = [on EXCEPT ![t] = p]

\* sendRenderedState, or the tick, returns: addSession goes on to register.
Return(t) == IF t \in Pages /\ page[t] = "opening" THEN Goto(t, "put", t) ELSE Goto(t, "idle", None)

-----------------------------------------------------------------------------
(* The three occasions to render.                                          *)

\* setState publishes, and update goes through the registered pages.
SetState ==
    /\ at[source] = "idle" /\ todo = {} /\ version < MaxVersion
    /\ version' = version + 1
    /\ todo' = connections
    /\ missed' = missed \cup {p \in Pages : page[p] = "opening" /\ at[p] # "render"}
    /\ UNCHANGED <<connections, page, connection, thread, crossed>>

UpdatePage(p) ==
    /\ at[source] = "idle" /\ p \in todo
    /\ todo' = todo \ {p}
    /\ Goto(source, "render", p)
    /\ UNCHANGED <<version, connections, page, connection, rendered, ghost>>

\* addSession: rendered first and registered after.  Whether nextSend, set to
\* now by the constructor, has passed when it is looked at is up to the clock.
Open(p) ==
    /\ page[p] = "new"
    /\ page' = [page EXCEPT ![p] = "opening"]
    /\ \E h \in BOOLEAN : held' = [held EXCEPT ![p] = h]
    /\ Goto(p, "render", p)
    /\ UNCHANGED <<version, connections, todo, sortBy, lastContent, needSend, shown, rendered, ghost>>

\* An update in progress may or may not reach a page that is added meanwhile.
Put(p) ==
    /\ at[p] = "put"
    /\ connections' = connections \cup {p}
    /\ page' = [page EXCEPT ![p] = "open"]
    /\ \/ UNCHANGED todo
       \/ (todo # {} \/ at[source] # "idle") /\ todo' = todo \cup {p}
    /\ Goto(p, "idle", None)
    /\ UNCHANGED <<version, connection, rendered, ghost>>

\* Mutant: a request without a column resets the sorting.
ResortFirstColumn(p) ==
    /\ p \in connections /\ at[p] = "idle"
    /\ sortBy' = [sortBy EXCEPT ![p] = None]
    /\ Goto(p, "render", p)
    /\ UNCHANGED <<version, connections, todo, page, lastContent, needSend, held, shown, rendered, ghost>>

\* onMessage: "sortBy".
Resort(p) ==
    /\ p \in connections /\ at[p] = "idle"
    /\ \E s \in Sortings : sortBy' = [sortBy EXCEPT ![p] = s]
    /\ Goto(p, "render", p)
    /\ UNCHANGED <<version, connections, todo, page, lastContent, needSend, held, shown, rendered, ghost>>

Close(p) ==
    /\ p \in connections /\ at[p] = "idle"
    /\ connections' = connections \ {p}
    /\ todo' = todo \ {p}
    /\ page' = [page EXCEPT ![p] = "closed"]
    /\ UNCHANGED <<version, connection, thread, ghost>>

-----------------------------------------------------------------------------
(* sendRenderedState and sendContent.                                      *)

Rendering(p) == {t \in Threads : at[t] = "keep" /\ on[t] = p}

Render(t) ==
    /\ at[t] = "render"
    /\ LET p == on[t] IN
        /\ rendered' = [rendered EXCEPT ![t] = [version |-> version, sorting |-> sortBy[p]]]
        /\ crossed' = IF Rendering(p) = {} THEN crossed \ {p} ELSE crossed \cup {p}
        /\ missed' = IF p \in connections THEN missed \ {p} ELSE missed
        /\ Goto(t, "keep", p)
    /\ UNCHANGED <<version, connections, todo, page, connection>>

Forced(t) == t \in Pages /\ page[t] = "open"

\* Mutant: content that cannot be sent yet is not kept.
KeepIfSent(t) ==
    /\ at[t] = "keep"
    /\ LET p == on[t] IN
        \/ /\ rendered[t] = lastContent[p]
           /\ Return(t) /\ UNCHANGED lastContent
        \/ /\ rendered[t] # lastContent[p]
           /\ lastContent' = IF Forced(t) \/ ~held[p]
                             THEN [lastContent EXCEPT ![p] = rendered[t]] ELSE lastContent
           /\ Goto(t, IF Forced(t) \/ ~held[p] THEN "send" ELSE "hold", p)
    /\ rendered' = [rendered EXCEPT ![t] = None]
    /\ UNCHANGED <<version, connections, todo, page, sortBy, needSend, held, shown, ghost>>

Keep(t) ==
    /\ at[t] = "keep"
    /\ LET p == on[t] IN
        \/ /\ rendered[t] = lastContent[p]
           /\ Return(t) /\ UNCHANGED lastContent
        \/ /\ rendered[t] # lastContent[p]
           /\ lastContent' = [lastContent EXCEPT ![p] = rendered[t]]
           /\ Goto(t, IF Forced(t) \/ ~held[p] THEN "send" ELSE "hold", p)
    /\ rendered' = [rendered EXCEPT ![t] = None]
    /\ UNCHANGED <<version, connections, todo, page, sortBy, needSend, held, shown, ghost>>

Hold(t) ==
    /\ at[t] = "hold"
    /\ needSend' = [needSend EXCEPT ![on[t]] = TRUE]
    /\ Return(t)
    /\ UNCHANGED <<version, connections, todo, page, sortBy, lastContent, held, shown, rendered, ghost>>

\* Mutant: needSend is reset after the push.
PushThenReset(t) ==
    /\ LET p == on[t] IN
        \/ /\ at[t] = "send"
           /\ shown' = [shown EXCEPT ![p] = lastContent[p]]
           /\ Goto(t, "push", p)
           /\ UNCHANGED <<needSend, held>>
        \/ /\ at[t] = "push"
           /\ needSend' = [needSend EXCEPT ![p] = FALSE]
           /\ held'     = [held EXCEPT ![p] = TRUE]
           /\ Return(t)
           /\ UNCHANGED shown
    /\ UNCHANGED <<version, connections, todo, page, sortBy, lastContent, rendered, ghost>>

\* sendContent: reset needSend and nextSend, then push the content there is now.
SendContent(t) ==
    /\ LET p == on[t] IN
        \/ /\ at[t] = "send"
           /\ needSend' = [needSend EXCEPT ![p] = FALSE]
           /\ held'     = [held EXCEPT ![p] = TRUE]
           /\ Goto(t, "push", p)
           /\ UNCHANGED shown
        \/ /\ at[t] = "push"
           /\ shown' = [shown EXCEPT ![p] = lastContent[p]]
           /\ Return(t)
           /\ UNCHANGED <<needSend, held>>
    /\ UNCHANGED <<version, connections, todo, page, sortBy, lastContent, rendered, ghost>>

\* Mutant: the tick sends only while the rate limit forbids it.
TickWhileHeld(p) ==
    /\ at[ticker] = "idle"
    /\ p \in connections /\ needSend[p] /\ held[p]
    /\ Goto(ticker, "send", p)
    /\ UNCHANGED <<version, connections, todo, page, connection, rendered, ghost>>

\* The other branch of the tick pings when nextSend is more than 30 s ahead,
\* which it never is.
Tick(p) ==
    /\ at[ticker] = "idle"
    /\ p \in connections /\ needSend[p]
    /\ Goto(ticker, "send", p)
    /\ UNCHANGED <<version, connections, todo, page, connection, rendered, ghost>>

\* A second has passed since the last send.
Pass(p) ==
    /\ held[p]
    /\ held' = [held EXCEPT ![p] = FALSE]
    /\ UNCHANGED <<version, connections, todo, page, sortBy, lastContent, needSend, shown, thread, ghost>>

Work(t) == Render(t) \/ Keep(t) \/ Hold(t) \/ SendContent(t)

Next ==
    \/ SetState
    \/ \E p \in Pages :
        UpdatePage(p) \/ Open(p) \/ Put(p) \/ Resort(p) \/ Close(p) \/ Tick(p) \/ Pass(p)
    \/ \E t \in Threads : Work(t)

\* The threads run, a scheduled tick reaches every page, and time passes.
Fairness ==
    /\ \A t \in Threads : WF_vars(Work(t))
    /\ \A p \in Pages : SF_vars(Tick(p)) /\ WF_vars(Pass(p)) /\ WF_vars(UpdatePage(p))

Spec == Init /\ [][Next]_vars /\ Fairness

-----------------------------------------------------------------------------
(* Properties.                                                             *)

\* No content is lost between the three threads: as long as a page has not been
\* pushed what was rendered for it last, a thread is about to push it, or the
\* ticker will find needSend set (Connection.sendRenderedState, sendContent).
NothingHeldBack ==
    \A p \in Pages : shown[p] # lastContent[p] =>
        needSend[p] \/ \E t \in Threads : on[t] = p /\ at[t] \in {"send", "push", "hold"}

\* When no thread is about to render it, an open page has been rendered with the
\* current state and its own sorting, unless an update went past it while it was
\* being registered (Updates.java:225-226) or two of its renderings overlapped.
InSync ==
    \A p \in connections :
        (/\ p \notin todo \cup missed \cup crossed
         /\ \A t \in Threads : on[t] = p => at[t] \notin {"render", "keep"}) =>
            lastContent[p] = [version |-> version, sorting |-> sortBy[p]]

\* What the rate limit holds back is pushed, while the page stays open.
HeldIsPushed ==
    \A p \in Pages : (p \in connections /\ needSend[p]) ~> (p \notin connections \/ ~needSend[p])
=============================================================================
