----------------------------- MODULE LogHandlers -----------------------------
(***************************************************************************)
(* The log handlers of snmp/snmp_logging.c: a doubly linked list in order  *)
(* of priority, an index into it by priority, and a count of the handlers  *)
(* that are enabled.  A message of priority p goes to the handlers from    *)
(* logh_priorities[p] on.  0 is the most urgent priority.                  *)
(*                                                                         *)
(* The program calls these functions one after the other; only a removal   *)
(* of all handlers is taken in steps.  Tokens, time stamps and the text of *)
(* messages are left out.                                                  *)
(***************************************************************************)
EXTENDS Integers, SequencesExt

CONSTANTS Handler,      \* the memory of handlers
          Null,
          LOG_DEBUG,    \* the least urgent priority
          Type          \* the kinds of handlers in use

ASSUME LogAssumption == /\ IsFiniteSet(Handler)
                        /\ LOG_DEBUG \in Nat
                        /\ Null \notin Handler
                        /\ Type \subseteq {"stderr", "file", "syslog", "none"}

VARIABLES logh_head, next, prev,    \* the list
          logh_priorities,          \* the index
          live,                     \* handlers that are allocated
          priority, pri_max, type,
          enabled,                  \* logh->enabled
          logh_enabled,             \* the count
          open,                     \* file handlers whose file is open
          removing                  \* "no", or what follows the removal of all

links == <<logh_head, next, prev>>
fields == <<priority, pri_max, type>>
logVars == <<links, logh_priorities, live, fields, enabled, logh_enabled, open, removing>>

Priorities == 0 .. LOG_DEBUG

LogInit == /\ logh_head = Null
           /\ next = [h \in Handler |-> Null] /\ prev = next
           /\ logh_priorities = [p \in Priorities |-> Null]
           /\ live = {}
           /\ priority = [h \in Handler |-> 0] /\ pri_max = priority
           /\ type = [h \in Handler |-> "none"]
           /\ enabled = {} /\ logh_enabled = 0
           /\ open = {}
           /\ removing = "no"

\* The handlers from h on.
Chain(h) == LET go[j \in 0 .. Cardinality(Handler)] ==
                  IF j = 0 THEN IF h = Null THEN <<>> ELSE <<h>>
                  ELSE LET w == go[j - 1]
                       IN  IF Len(w) < j \/ next[w[j]] = Null THEN w
                           ELSE Append(w, next[w[j]])
            IN  go[Cardinality(Handler)]

HandlersListed == ToSet(Chain(logh_head))
OfType(t) == {h \in HandlersListed : type[h] = t}

-----------------------------------------------------------------------------
(* netsnmp_register_loghandler and netsnmp_add_loghandler.                  *)

\* The handler that will follow one of priority p.
Following(p) == LET c == Chain(logh_head)
                    i == SelectInSeq(c, LAMBDA h : priority[h] >= p)
                IN  IF i = 0 THEN Null ELSE c[i]

\* The new handler's own prev is not set, wherever it goes.
LinkIn(h, p) ==
    LET logh2 == Following(p)
    IN  CASE logh2 # Null ->
               /\ IF prev[logh2] # Null
                  THEN next' = [next EXCEPT ![prev[logh2]] = h, ![h] = logh2] /\ UNCHANGED logh_head
                  ELSE next' = [next EXCEPT ![h] = logh2] /\ logh_head' = h
               /\ prev' = [prev EXCEPT ![logh2] = h]
          [] logh2 = Null /\ logh_head # Null ->
               /\ next' = [next EXCEPT ![Last(Chain(logh_head))] = h]
               /\ UNCHANGED <<logh_head, prev>>
          [] OTHER -> logh_head' = h /\ UNCHANGED <<next, prev>>

Indexed(h, p) == [i \in Priorities |->
    IF i <= p /\ (logh_priorities[i] = Null \/ priority[logh_priorities[i]] >= p)
    THEN h ELSE logh_priorities[i]]

Register(h, t, p, max) ==
    /\ h \notin live
    /\ live' = live \cup {h}
    /\ type' = [type EXCEPT ![h] = t]
    /\ priority' = [priority EXCEPT ![h] = p]
    /\ pri_max' = [pri_max EXCEPT ![h] = max]
    /\ LinkIn(h, p)
    /\ logh_priorities' = Indexed(h, p)

\* netsnmp_enable_this_loghandler and its opposite, for several at once.
SetEnabled(on) == /\ enabled' = on
                  /\ logh_enabled' = logh_enabled + Cardinality(on \ enabled)
                                                  - Cardinality(enabled \ on)

-----------------------------------------------------------------------------
(* What a program asks for.                                                 *)

\* -Le, -LE, -Lo, -LO: stderr and stdout alike.
LogToStderr == \E h \in Handler, p \in Priorities, max \in Priorities :
    /\ removing = "no" /\ "stderr" \in Type
    /\ max <= p
    /\ Register(h, "stderr", p, max)
    /\ SetEnabled(enabled \cup {h})
    /\ UNCHANGED <<open, removing>>

\* -Lf, -LF, snmp_enable_filelog with a new name.  A file that cannot be opened
\* leaves an enabled handler, which tries again with each message.
LogToFile == \E h \in Handler, p \in Priorities, max \in Priorities :
    /\ removing = "no" /\ "file" \in Type
    /\ max <= p
    /\ Register(h, "file", p, max)
    /\ SetEnabled(enabled \cup {h})
    /\ open' \in {open, open \cup {h}}
    /\ UNCHANGED removing

\* Handlers for the event log: all are disabled, and enabled if it opens.
AfterOpenLog(all, opens) == IF opens THEN enabled \cup all ELSE enabled \ all

\* -Ls, -LS and snmp_enable_syslog, which registers a handler only if there is none.
\* snmp_enable_syslog_ident walks the list as it is after that.  After an unknown
\* facility the log is not opened.
LogToSyslog == \E opens \in BOOLEAN :
    /\ removing = "no" /\ "syslog" \in Type
    /\ \/ \E h \in Handler, p \in Priorities, max \in Priorities :
            /\ max <= p
            /\ Register(h, "syslog", p, max)
            /\ \/ SetEnabled(AfterOpenLog(OfType("syslog")', opens))
               \/ SetEnabled(enabled \cup {h})
       \/ /\ OfType("syslog") # {}
          /\ SetEnabled(AfterOpenLog(OfType("syslog"), opens))
          /\ UNCHANGED <<links, live, fields, logh_priorities>>
    /\ UNCHANGED <<open, removing>>

\* snmp_enable_stderrlog; snmp_enable_filelog with or without a name.  A file is
\* enabled only if it is open or can be opened.
EnableType == \/ /\ removing = "no" /\ OfType("stderr") # {}
                 /\ SetEnabled(enabled \cup OfType("stderr"))
                 /\ UNCHANGED <<links, live, fields, logh_priorities, open, removing>>
              \/ \E asked \in {OfType("file")} \cup {{h} : h \in OfType("file")} :
                 \E can \in SUBSET asked :
                     /\ removing = "no" /\ asked # {}
                     /\ asked \cap open \subseteq can
                     /\ SetEnabled(enabled \cup can)
                     /\ open' = open \cup can
                     /\ UNCHANGED <<links, live, fields, logh_priorities, removing>>

\* netsnmp_enable_loghandler and netsnmp_disable_loghandler, which leave files alone.
Toggle == \E h \in HandlersListed : /\ removing = "no"
                                    /\ SetEnabled(IF h \in enabled THEN enabled \ {h} ELSE enabled \cup {h})
                                    /\ UNCHANGED <<links, live, fields, logh_priorities, open, removing>>

\* snmp_disable_stderrlog, snmp_disable_filelog, snmp_disable_syslog.
DisableType == \E t \in Type :
    /\ removing = "no" /\ t # "none"
    /\ SetEnabled(enabled \ OfType(t))
    /\ open' = open \ (OfType(t) \cap enabled)
    /\ UNCHANGED <<links, live, fields, logh_priorities, removing>>

\* The handlers a message of priority p goes to, if any are enabled.
Receivers(p) == {h \in ToSet(Chain(logh_priorities[p])) : h \in enabled /\ p >= pri_max[h]}

\* snmp_log_string.  A file that is closed is opened first.
Log == \E p \in Priorities :
    /\ removing = "no" /\ logh_enabled # 0
    /\ \E can \in SUBSET {h \in Receivers(p) : type[h] = "file"} : open' = open \cup can
    /\ open' # open
    /\ UNCHANGED <<links, live, fields, logh_priorities, enabled, logh_enabled, removing>>

\* The log files are renamed, and the program is told: netsnmp_logging_restart.
\* Files behind a handler for the event log are passed over, and the first step
\* closes and opens that log.
RestartLog == /\ removing = "no"
              /\ LET c == SelectSeq(Chain(logh_head), LAMBDA h : h \in enabled)
                     done == SelectInSeq(c, LAMBDA h : type[h] = "syslog")
                     doneone == done # 0
                     before == IF doneone THEN SubSeq(c, 1, done) ELSE c
                     again == {h \in ToSet(before) : type[h] = "file"}
                     logs == OfType("syslog")
                 IN  /\ c # <<>>
                     /\ \E can \in SUBSET again, opens \in BOOLEAN :
                          /\ SetEnabled(IF doneone THEN AfterOpenLog(logs, opens) \ (again \ can)
                                        ELSE enabled \ (again \ can))
                          /\ open' = (open \ again) \cup can
              /\ UNCHANGED <<links, live, fields, logh_priorities, removing>>

-----------------------------------------------------------------------------
(* shutdown_snmp_logging, and -Ln, which registers a handler that drops     *)
(* messages.                                                                *)

\* snmp_disable_log.
DisableLog == SetEnabled(enabled \ HandlersListed)

RemoveAll == \E why \in {"shutdown", "none"} :
    /\ removing = "no"
    /\ DisableLog
    /\ open' = open \ HandlersListed
    /\ removing' = why
    /\ UNCHANGED <<links, live, fields, logh_priorities>>

\* Mutant: the index is cleared below the handler's priority only.
Unindexed_below(h) == [i \in Priorities |-> IF i < priority[h] THEN Null ELSE logh_priorities[i]]

Unindexed(h) == [i \in Priorities |-> IF i <= priority[h] THEN Null ELSE logh_priorities[i]]

\* netsnmp_remove_loghandler on the first.  What freed memory holds is forgotten.
RemoveHead == LET h == logh_head
                  after == next[h]
              IN  /\ removing # "no" /\ h # Null
                  /\ logh_priorities' = Unindexed(h)
                  /\ IF prev[h] # Null
                     THEN next' = [next EXCEPT ![prev[h]] = after, ![h] = Null] /\ UNCHANGED logh_head
                     ELSE next' = [next EXCEPT ![h] = Null] /\ logh_head' = after
                  /\ prev' = [k \in Handler |-> IF k = h THEN Null
                                                ELSE IF k = after THEN prev[h] ELSE prev[k]]
                  /\ live' = live \ {h}
                  /\ priority' = [priority EXCEPT ![h] = 0]
                  /\ pri_max' = [pri_max EXCEPT ![h] = 0]
                  /\ type' = [type EXCEPT ![h] = "none"]
                  /\ UNCHANGED <<enabled, logh_enabled, open, removing>>

AllRemoved == /\ removing # "no" /\ logh_head = Null
              /\ removing' = "no"
              /\ \/ /\ removing = "shutdown"
                    /\ UNCHANGED <<links, live, fields, logh_priorities, enabled, logh_enabled>>
                 \/ \E h \in Handler, p \in Priorities, max \in Priorities :
                      /\ removing = "none" /\ max <= p
                      /\ Register(h, "none", p, max)
                      /\ SetEnabled(enabled \cup {h})
              /\ UNCHANGED open

LogNext == \/ LogToStderr \/ LogToFile \/ LogToSyslog
           \/ EnableType \/ DisableType \/ Toggle
           \/ Log \/ RestartLog
           \/ RemoveAll \/ RemoveHead \/ AllRemoved

LogSpec == LogInit /\ [][LogNext]_logVars

-----------------------------------------------------------------------------
(* Properties.                                                              *)

\* Neither the list nor the index reaches a handler that was freed, not even in
\* the middle of removing all of them.
ReachesLive == \A h \in {logh_head} \cup {logh_priorities[p] : p \in Priorities} :
                   ToSet(Chain(h)) \subseteq live

\* A message goes to handlers of its priority or a less urgent one only, in
\* increasing order: the index never leads in front of them.
OnlyAddressed == \A p \in Priorities : LET c == Chain(logh_priorities[p])
                                       IN  \A i \in DOMAIN c : /\ p <= priority[c[i]]
                                                               /\ i > 1 => priority[c[i - 1]] <= priority[c[i]]

\* As long as no handler has got lost from the list, the index finds all that a
\* message is for, among handlers of the same priority too.
AllAddressed == live = HandlersListed /\ removing = "no" =>
                    \A p \in Priorities : \A h \in live :
                        priority[h] >= p => h \in ToSet(Chain(logh_priorities[p]))

\* logh_enabled, which decides whether messages go to stderr instead, never
\* counts a handler that has been removed: those still allocated are counted.
CountsAllocated == logh_enabled = Cardinality(enabled \cap live)

\* List, index and count of the handlers agree on what a message reaches.
HandlersSound == ReachesLive /\ OnlyAddressed /\ AllAddressed /\ CountsAllocated

\* snmp_logging.c:1213 says "We've got to be able to log messages *somewhere*!": if
\* messages do not go to stderr, some handler gets those of some priority.
LoggedSomewhere == removing = "no" /\ logh_enabled # 0 => \E p \in Priorities : Receivers(p) # {}

=============================================================================
