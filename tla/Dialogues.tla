------------------------------- MODULE Dialogues -------------------------------
(* HandlerDispatcher: the tasks of handler calls, and the conversations that  *)
(* calls of conversation commands start in one session of one plugin.  A call *)
(* names its conversation too.  The waiter of a conversation that asks is     *)
(* here only its presence; SessionWaiter has the details.                     *)
EXTENDS Naturals, FiniteSets

CONSTANTS
    Calls,       \* handler invocations of the session
    Replacing,   \* those of conversation commands with mode "replace"
    Rejecting,   \* those of conversation commands with mode "reject"
    Stubborn,    \* conversations that may swallow their cancellation
    NoDialogue

ASSUME DialoguesAssumption ==
    /\ Replacing \cup Rejecting \subseteq Calls
    /\ NoDialogue \notin Calls

VARIABLES
    call,        \* where the task of a call stands
    callCancel,  \* a CancelledError is on its way to the task of the call
    old,         \* the conversation that a call replaces
    dialogue,    \* where the task of a conversation stands
    taskCancel,  \* a CancelledError is on its way to that task
    usable,      \* ConversationSession.state of a conversation
    table,       \* _conversations: the one conversation the session's key holds
    orphans      \* conversations that were overwritten in the table

dialogueVars == <<call, callCancel, old, dialogue, taskCancel, usable, table, orphans>>

CallStates == {"none", "new", "work", "busy", "failing", "yielded", "grace", "done"}
TaskStates == {"none", "new", "work", "prompt", "ask", "done", "gone"}
Endings    == {"TIMEOUT", "COMPLETED", "CANCELLED"}

DialogueTypeOK ==
    /\ call \in [Calls -> CallStates] /\ dialogue \in [Calls -> TaskStates]
    /\ callCancel \subseteq Calls /\ taskCancel \subseteq Calls /\ orphans \subseteq Calls
    /\ old \in [Calls -> Calls \cup {NoDialogue}] /\ table \in Calls \cup {NoDialogue}
    /\ usable \in [Calls -> {"ACTIVE", "REPLACED"} \cup Endings]

DialogueInit ==
    /\ call = [c \in Calls |-> "none"] /\ dialogue = [c \in Calls |-> "none"]
    /\ callCancel = {} /\ taskCancel = {} /\ orphans = {}
    /\ old = [c \in Calls |-> NoDialogue] /\ table = NoDialogue
    /\ usable = [c \in Calls |-> "ACTIVE"]

-----------------------------------------------------------------------------
Under(c)     == dialogue[c] \in {"new", "work", "prompt", "ask"}   \* its task is not done
taskVars     == <<dialogue, taskCancel, usable, table, orphans>>
Busy         == table # NoDialogue /\ Under(table)
GoTo(c, s)   == call' = [call EXCEPT ![c] = s]

(* ConversationSession.close.                                                 *)
Closed(c, s) ==
    IF usable[c] = "ACTIVE" \/ s = "REPLACED" THEN [usable EXCEPT ![c] = s] ELSE usable

InvokeHandler(c) ==
    /\ call[c] = "none"
    /\ GoTo(c, "new")
    /\ UNCHANGED <<callCancel, old, taskVars>>

(* HandlerDispatcher.cancel finds the call in _active until its task ends.    *)
CancelCall(c) ==
    /\ call[c] \notin {"none", "done"}
    /\ callCancel' = callCancel \cup {c}
    /\ UNCHANGED <<call, old, taskVars>>

(* _run_handler: the limiter, a filter or the arguments end it, or it runs a  *)
(* handler that starts no conversation.                                       *)
RunHandler(c) ==
    /\ call[c] = "new" /\ c \notin callCancel
    /\ \/ GoTo(c, "done")
       \/ c \notin Replacing \cup Rejecting /\ GoTo(c, "work")
    /\ UNCHANGED <<callCancel, old, taskVars>>

(* The handler returns, or the reply to a busy session has been sent.         *)
HandlerEnds(c) ==
    /\ call[c] \in {"work", "busy"} /\ c \notin callCancel
    /\ GoTo(c, "done")
    /\ UNCHANGED <<callCancel, old, taskVars>>

(* The CancelledError reaches the task wherever it does not swallow it.       *)
CallCancelled(c) ==
    /\ c \in callCancel /\ call[c] \in {"new", "work", "busy", "failing", "yielded"}
    /\ GoTo(c, "done")
    /\ UNCHANGED <<callCancel, old, taskVars>>

(* The new conversation takes the session's place in the table.  in is what   *)
(* the table holds by then.                                                   *)
Begin(c, in) ==
    /\ GoTo(c, "done")
    /\ dialogue' = [dialogue EXCEPT ![c] = "new"]
    /\ table' = c
    /\ orphans' = IF in # NoDialogue /\ Under(in) THEN orphans \cup {in} ELSE orphans
    /\ UNCHANGED <<callCancel, old, taskCancel, usable>>

\* Mutant: a conversation that is asking counts as none.
StartFreeWhileAsking(c) ==
    /\ call[c] = "new" /\ c \notin callCancel
    /\ c \in Replacing \cup Rejecting
    /\ ~(Busy /\ dialogue[table] # "ask")
    /\ Begin(c, NoDialogue)

(* _start_conversation where none is under way.                               *)
StartFree(c) ==
    /\ call[c] = "new" /\ c \notin callCancel
    /\ c \in Replacing \cup Rejecting
    /\ ~Busy
    /\ Begin(c, table)

StartBusy(c) ==
    /\ call[c] = "new" /\ c \notin callCancel
    /\ Busy
    /\ \/ c \in Rejecting /\ GoTo(c, "busy") /\ UNCHANGED <<old, usable>>
       \/ /\ c \in Replacing
          /\ GoTo(c, "failing")
          /\ old' = [old EXCEPT ![c] = table]
          /\ usable' = Closed(table, "REPLACED")
    /\ UNCHANGED <<callCancel, dialogue, taskCancel, table, orphans>>

Unasked == [d \in Calls |-> IF dialogue[d] = "ask" THEN "work" ELSE dialogue[d]]

(* SessionWaiterManager.fail: the ask raises that the session has, whether of *)
(* the old conversation or of another.                                        *)
FailWaiter(c) ==
    /\ call[c] = "failing" /\ c \notin callCancel
    /\ GoTo(c, "yielded")
    /\ dialogue' = Unasked
    /\ UNCHANGED <<callCancel, old, taskCancel, usable, table, orphans>>

(* After sleep(0) the task of the old conversation is cancelled.              *)
CancelOld(c) ==
    /\ call[c] = "yielded" /\ c \notin callCancel
    /\ GoTo(c, "grace")
    /\ taskCancel' = taskCancel \cup {d \in {old[c]} : Under(d)}
    /\ UNCHANGED <<callCancel, old, dialogue, usable, table, orphans>>

(* The old conversation has ended, the grace period is over, or the call is   *)
(* cancelled, which the except clause swallows.                               *)
GraceEnds(c) ==
    /\ call[c] = "grace"
    /\ Begin(c, IF table = old[c] THEN NoDialogue ELSE table)

-----------------------------------------------------------------------------
Step(c, s) == dialogue' = [dialogue EXCEPT ![c] = s]
callVars   == <<call, callCancel, old, orphans>>

TaskBegins(c) ==
    /\ dialogue[c] = "new" /\ c \notin taskCancel
    /\ Step(c, "work")
    /\ UNCHANGED <<callVars, taskCancel, usable, table>>

(* ask() of a usable session sends the prompt, and awaits that.               *)
AskUser(c) ==
    /\ dialogue[c] = "work" /\ usable[c] = "ACTIVE" /\ c \notin taskCancel
    /\ Step(c, "prompt")
    /\ UNCHANGED <<callVars, taskCancel, usable, table>>

(* Sending it raises.                                                         *)
PromptFails(c) ==
    /\ dialogue[c] = "prompt" /\ c \notin taskCancel
    /\ Step(c, "work")
    /\ UNCHANGED <<callVars, taskCancel, usable, table>>

(* wait_for_event, even if the session was replaced meanwhile: the waiter     *)
(* replaces any other of the session, whose ask raises.                       *)
WaitForUser(c) ==
    /\ dialogue[c] = "prompt" /\ c \notin taskCancel
    /\ dialogue' = [Unasked EXCEPT ![c] = "ask"]
    /\ UNCHANGED <<callVars, taskCancel, usable, table>>

(* A message of the user arrives or the time is over.                         *)
Answered(c) ==
    /\ dialogue[c] = "ask" /\ c \notin taskCancel
    /\ Step(c, "work")
    /\ usable' \in {usable, Closed(c, "TIMEOUT")}
    /\ UNCHANGED <<callVars, taskCancel, table>>

(* end() in the handler of the conversation, which goes on.                   *)
EndSession(c) ==
    /\ dialogue[c] = "work" /\ c \notin taskCancel
    /\ usable' = Closed(c, "COMPLETED")
    /\ UNCHANGED <<callVars, dialogue, taskCancel, table>>

(* The handler returns or raises.                                             *)
TaskEnds(c) ==
    /\ dialogue[c] = "work" /\ c \notin taskCancel
    /\ Step(c, "done")
    /\ usable' = Closed(c, "COMPLETED")
    /\ UNCHANGED <<callVars, taskCancel, table>>

(* The CancelledError is delivered.  A task that has not begun ends without   *)
(* any clause of it running; a handler that swallows the error has a session  *)
(* that only ask() has closed.                                                *)
TaskCancelled(c) ==
    /\ c \in taskCancel /\ Under(c)
    /\ taskCancel' = taskCancel \ {c}
    /\ \/ /\ Step(c, "done")
          /\ usable' = IF dialogue[c] = "new" THEN usable ELSE Closed(c, "CANCELLED")
       \/ /\ c \in Stubborn /\ dialogue[c] # "new"
          /\ Step(c, "work")
          /\ usable' = IF dialogue[c] = "ask" THEN Closed(c, "CANCELLED") ELSE usable
    /\ UNCHANGED <<callVars, table>>

(* _on_done: the table is cleared if it still holds this conversation.        *)
DoneCallback(c) ==
    /\ dialogue[c] = "done"
    /\ Step(c, "gone")
    /\ table' = IF table = c THEN NoDialogue ELSE table
    /\ UNCHANGED <<callVars, taskCancel, usable>>

DialogueNext ==
    \E c \in Calls :
        \/ InvokeHandler(c) \/ CancelCall(c) \/ RunHandler(c) \/ HandlerEnds(c)
        \/ CallCancelled(c) \/ StartFree(c) \/ StartBusy(c) \/ FailWaiter(c)
        \/ CancelOld(c) \/ GraceEnds(c)
        \/ TaskBegins(c) \/ AskUser(c) \/ PromptFails(c) \/ WaitForUser(c) \/ Answered(c)
        \/ EndSession(c) \/ TaskEnds(c) \/ TaskCancelled(c) \/ DoneCallback(c)

DialogueSpec == DialogueInit /\ [][DialogueNext]_dialogueVars

-----------------------------------------------------------------------------
InUse(c) == Under(c) /\ usable[c] = "ACTIVE"

(* Two conversations of a session can be used at once only when one was       *)
(* overwritten in the table, and only a call that has waited for a third to   *)
(* end overwrites: mode "reject" alone never has two.  The one the table      *)
(* holds is under way or its callback is still to come.                       *)
OneDialogue ==
    /\ \A c \in Calls : InUse(c) => table = c \/ c \in orphans
    /\ \A c \in orphans : \E d \in Replacing \ {c} :
          dialogue[d] # "none" /\ old[d] \notin {c, NoDialogue}
    /\ table # NoDialogue => dialogue[table] # "gone"

(* A new conversation replaces the current one.                               *)
ReplacedForGood == Cardinality({c \in Calls : InUse(c)}) <= 1
=============================================================================
