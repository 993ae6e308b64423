------------------------------ MODULE UserInput ------------------------------
(***************************************************************************)
(* The forms the adapter puts to the editor, from main.rs: the questions a *)
(* model asks (userInput/requested, answered one staged form at a time),   *)
(* the /feedback form and the device-code login.  Each form is an ACP      *)
(* request of the adapter's own; its answer arrives on the main loop later *)
(* and is matched by the request's id.  The host settles a question by the *)
(* adapter's command or without it (another client, an interrupt), and it  *)
(* can die between a command and its reply.                                *)
(*                                                                         *)
(* What a form asks and what the user typed are abstracted: a form is the  *)
(* question's index, an answer is the id of the form it was given on.      *)
(***************************************************************************)
EXTENDS Naturals, Sequences, SequencesExt, FiniteSets

CONSTANTS Prompts,      \* user input ids the host may ask
          Questions,    \* how many questions each holds
          MaxForms,     \* forms put to the editor
          MaxCommands,  \* /feedback and auth/login requests of the editor
          MaxUnread,    \* messages the main loop has not read when another is sent
          MaxCrashes    \* host deaths

ASSUME UserInputAssumption ==
  /\ IsFiniteSet(Prompts)
  /\ Questions \in [Prompts -> Nat \ {0}]
  /\ MaxForms \in Nat /\ MaxCommands \in Nat /\ MaxUnread \in Nat /\ MaxCrashes \in Nat

VARIABLES
  hostQ,     \* the host's state of each user input
  hostGot,   \* the answers the host settled it with
  flow,      \* the login flow the host runs (0: none)
  wire,      \* host notifications and requests the main loop has not read
  ui,        \* pending_ui: the open user inputs of the session
  seen,      \* ui_seen
  state,     \* the v2 session state the editor was told
  feedback,  \* pending_feedback
  login,     \* DEVICE_LOGIN
  forms,     \* the forms sent: what each one asks, and what became of it
  replies,   \* the editor's answers the main loop has not read
  commands,  \* the editor's /feedback and auth/login requests, and how often each was answered
  unsettled, \* ghost: user inputs whose decline never reached the host
  missed,    \* ghost: user inputs whose settlement was lost with a host
  crashes

hostVars == <<hostQ, hostGot, flow>>
vars == <<hostQ, hostGot, flow, wire, ui, seen, state, feedback, login, forms,
          replies, commands, unsettled, missed, crashes>>

FormIds == 1 .. MaxForms
Hows == {"answer", "invalid", "explain", "decline"}
None == 0
Closed == [open |-> FALSE, req |-> None, index |-> 0, confirmed |-> <<>>]
NoOffer == [req |-> None, command |-> None, flow |-> 0]
Room == Len(wire) + Len(replies) < MaxUnread
Event(kind, what) == [kind |-> kind, what |-> what]

Init ==
  /\ hostQ = [p \in Prompts |-> "none"]
  /\ hostGot = [p \in Prompts |-> <<>>]
  /\ flow = 0
  /\ wire = <<>> /\ replies = <<>>
  /\ ui = [p \in Prompts |-> Closed]
  /\ seen = {}
  /\ state = "running"
  /\ feedback = NoOffer /\ login = NoOffer
  /\ forms = <<>>
  /\ commands = <<>>
  /\ unsettled = {} /\ missed = {}
  /\ crashes = 0

----------------------------------------------------------------------------
(* Forms.  send_elicitation_form stores nothing; its caller keeps the id.  *)

Form(kind, what, index) == [kind |-> kind, what |-> what, index |-> index, live |-> TRUE]
NewForm == Len(forms) + 1
CanAsk == Len(forms) < MaxForms

Ask(form) == CanAsk /\ forms' = Append(forms, form)

\* Mutant: a settled question keeps its form.
WithdrawNothing(req) == UNCHANGED forms

\* $/cancel_request: the editor may have answered already, or still answer.
Withdraw(req) == forms' = IF req = None THEN forms ELSE [forms EXCEPT ![req].live = FALSE]

ShowPendingUi(p, index, confirmed) ==
  /\ Ask(Form("question", p, index))
  /\ ui' = [ui EXCEPT ![p] = [open |-> TRUE, req |-> NewForm, index |-> index,
                              confirmed |-> confirmed]]

ReissuePendingUi(p) == ShowPendingUi(p, ui[p].index, ui[p].confirmed)
AskNextUiQuestion(p, confirmed) == ShowPendingUi(p, ui[p].index + 1, confirmed)

----------------------------------------------------------------------------
(* The host (external).                                                    *)

HostAsks(p) ==
  /\ hostQ[p] = "none" /\ Room
  /\ hostQ' = [hostQ EXCEPT ![p] = "open"]
  /\ wire' = Append(wire, Event("requested", p))
  /\ UNCHANGED <<hostGot, flow, ui, seen, state, feedback, login, forms, replies,
                 commands, unsettled, missed, crashes>>

\* A request and a notification carry the same question.
HostRepeats(p) ==
  /\ hostQ[p] = "open" /\ wire = <<>> /\ crashes > 0
  /\ wire' = Append(wire, Event("requested", p))
  /\ UNCHANGED <<hostVars, ui, seen, state, feedback, login, forms, replies,
                 commands, unsettled, missed, crashes>>

\* Another client answers, or the turn is interrupted.
HostSettles(p) ==
  /\ hostQ[p] = "open" /\ Room
  /\ hostQ' = [hostQ EXCEPT ![p] = "settled"]
  /\ wire' = Append(wire, Event("settled", p))
  /\ UNCHANGED <<hostGot, flow, ui, seen, state, feedback, login, forms, replies,
                 commands, unsettled, missed, crashes>>

HostEndsLogin ==
  /\ flow # 0 /\ Room
  /\ flow' = 0
  /\ wire' = Append(wire, Event("loginCompleted", flow))
  /\ UNCHANGED <<hostQ, hostGot, ui, seen, state, feedback, login, forms, replies,
                 commands, unsettled, missed, crashes>>

\* The members of a finite set in any order.
Orders(S) == {s \in [1 .. Cardinality(S) -> S] : ToSet(s) = S}

Settlements == {i \in DOMAIN wire : wire[i].kind = "settled"}

\* The host dies and is resumed: it asks its open questions again, and what
\* it had not delivered of the rest follows (the view was re-attached) or is
\* lost.  A login flow dies with it.
HostRestarts ==
  /\ crashes < MaxCrashes
  /\ crashes' = crashes + 1
  /\ flow' = 0
  /\ \E order \in Orders({p \in Prompts : hostQ[p] = "open"}) :
       LET again == [i \in DOMAIN order |-> Event("requested", order[i])]
       IN  \/ /\ \E at \in Orders(Settlements) :
                   /\ \A i, j \in DOMAIN at : i < j => at[i] < at[j]
                   /\ wire' = [i \in DOMAIN at |-> wire[at[i]]] \o again
              /\ UNCHANGED missed
           \/ /\ wire' = again
              /\ missed' = missed \cup {wire[i].what : i \in Settlements}
  /\ UNCHANGED <<hostQ, hostGot, ui, seen, state, feedback, login, forms, replies,
                 commands, unsettled>>

\* A settling command of the adapter.  The host takes it and says so, takes it
\* and dies or times out before it says so, or does not take it.
Admitted(p, answers) ==
  /\ hostQ[p] = "open"
  /\ hostQ' = [hostQ EXCEPT ![p] = "settled"]
  /\ hostGot' = [hostGot EXCEPT ![p] = answers]
  /\ wire' = Append(wire, Event("settled", p))

Refused == UNCHANGED <<hostQ, hostGot, wire>>

Command(p, answers, ok) ==
  \/ ok /\ Admitted(p, answers)
  \/ ~ok /\ (Admitted(p, answers) \/ Refused)

----------------------------------------------------------------------------
(* Host events, handle_msp.                                                *)

Take(kind) == wire # <<>> /\ Head(wire).kind = kind /\ wire' = Tail(wire)

\* A question already open or seen is not asked twice.
BridgeUserInput ==
  /\ Take("requested")
  /\ LET p == Head(wire).what
     IN  IF ui[p].open \/ p \in seen
         THEN UNCHANGED <<ui, seen, state, forms>>
         ELSE /\ seen' = seen \cup {p}
              /\ state' = "requires_action"
              /\ ShowPendingUi(p, 1, <<>>)
  /\ UNCHANGED <<hostVars, feedback, login, replies, commands, unsettled, missed, crashes>>

\* A form that is still open was settled elsewhere.
UserInputSettled ==
  /\ Take("settled")
  /\ LET p == Head(wire).what
         rest == [ui EXCEPT ![p] = Closed]
     IN  /\ seen' = seen \cup {p}
         /\ IF ui[p].open
            THEN /\ ui' = rest
                 /\ Withdraw(ui[p].req)
                 /\ state' = IF \A q \in Prompts : ~rest[q].open THEN "running" ELSE state
            ELSE UNCHANGED <<ui, forms, state>>
  /\ UNCHANGED <<hostVars, feedback, login, replies, commands, unsettled, missed, crashes>>

Answered(cmd) == commands' = [commands EXCEPT ![cmd].answers = @ + 1]

\* Muse's terminal names no flow: it ends whichever login is pending.
FinishDeviceLogin ==
  /\ Take("loginCompleted")
  /\ IF login = NoOffer THEN UNCHANGED <<login, commands>>
     ELSE /\ login' = NoOffer
          /\ Answered(login.command)
  /\ UNCHANGED <<hostVars, ui, seen, state, feedback, forms, replies, unsettled, missed, crashes>>

----------------------------------------------------------------------------
(* The editor.                                                             *)

\* The user answers a form, also one being withdrawn: with an acceptable
\* answer, one the form's rules reject, an explanation, or a refusal.
EditorAnswers(f, how) ==
  /\ f \in DOMAIN forms
  /\ forms[f].live /\ Room
  /\ replies' = Append(replies, [req |-> f, how |-> how])
  /\ forms' = [forms EXCEPT ![f].live = FALSE]
  /\ UNCHANGED <<hostVars, wire, ui, seen, state, feedback, login, commands,
                 unsettled, missed, crashes>>

Request(kind) ==
  /\ Len(commands) < MaxCommands
  /\ commands' = Append(commands, [kind |-> kind, answers |-> 0])

NewCommand == Len(commands) + 1

\* Mutant: a second /feedback replaces the open form.
StartFeedbackAnyway ==
  /\ Request("feedback")
  /\ state' = "requires_action"
  /\ Ask(Form("feedback", 0, 1))
  /\ feedback' = [NoOffer EXCEPT !.req = NewForm, !.command = NewCommand]

\* /feedback: one form at a time; a second command is refused at once.
StartFeedback ==
  IF feedback = NoOffer
  THEN /\ Request("feedback")
       /\ state' = "requires_action"
       /\ Ask(Form("feedback", 0, 1))
       /\ feedback' = [NoOffer EXCEPT !.req = NewForm, !.command = NewCommand]
  ELSE /\ Len(commands) < MaxCommands
       /\ commands' = Append(commands, [kind |-> "feedback", answers |-> 1])
       /\ UNCHANGED <<state, forms, feedback>>

EditorSendsFeedback ==
  /\ StartFeedback
  /\ UNCHANGED <<hostVars, wire, ui, seen, login, replies, unsettled, missed, crashes>>

\* auth/login: refused while one waits; otherwise the host starts a flow and
\* the editor is handed its page, or the host cannot and the login fails.
StartDeviceLogin ==
  /\ \/ /\ login = NoOffer
        /\ Request("login")
        /\ Ask(Form("login", 0, 1))
        /\ flow' = NewCommand
        /\ login' = [req |-> NewForm, command |-> NewCommand, flow |-> NewCommand]
     \/ /\ Len(commands) < MaxCommands
        /\ commands' = Append(commands, [kind |-> "login", answers |-> 1])
        /\ UNCHANGED <<flow, forms, login>>
  /\ UNCHANGED <<hostQ, hostGot, wire, ui, seen, state, feedback, replies, unsettled, missed, crashes>>

----------------------------------------------------------------------------
(* The editor's answers, complete_client_request.                          *)

Reply(kind) ==
  /\ replies # <<>>
  /\ forms[Head(replies).req].kind = kind
  /\ replies' = Tail(replies)

\* complete_elicitation: the reply is matched by the id of the form it is to.
CurrentUi(p) == ui[p].open /\ ui[p].req = Head(replies).req

StaleReply ==
  /\ Reply("question")
  /\ ~CurrentUi(forms[Head(replies).req].what)
  /\ UNCHANGED <<hostVars, wire, ui, seen, state, feedback, login, forms, commands,
                 unsettled, missed, crashes>>

Forget(p) == ui' = [ui EXCEPT ![p] = Closed]

\* Declined: the form is gone before the host is asked.  With confirmed
\* answers the prompt is interrupted with them, else it is cancelled.
DeclineQuestion(p) ==
  /\ CurrentUi(p) /\ Head(replies).how = "decline"
  /\ Forget(p)
  /\ \E ok \in BOOLEAN : Command(p, ui[p].confirmed, ok)
  /\ unsettled' = IF hostQ'[p] = "open" THEN unsettled \cup {p} ELSE unsettled
  /\ UNCHANGED <<state, forms>>

\* The answer breaks the form's rules: ask again, keeping what is confirmed.
RejectAnswer(p) ==
  /\ CurrentUi(p) /\ Head(replies).how = "invalid"
  /\ ReissuePendingUi(p)
  /\ UNCHANGED <<hostQ, hostGot, wire, state, unsettled>>

ConfirmedWith(p) == Append(ui[p].confirmed, Head(replies).req)

NextQuestion(p) ==
  /\ CurrentUi(p) /\ Head(replies).how = "answer"
  /\ ui[p].index < Questions[p]
  /\ AskNextUiQuestion(p, ConfirmedWith(p))
  /\ UNCHANGED <<hostQ, hostGot, wire, state, unsettled>>

\* Mutant: the refused answer stays among the confirmed ones.
ReissueHoldingIt(p, answers) == ShowPendingUi(p, ui[p].index, answers)
ReissueRejected(p, answers) == ReissuePendingUi(p)

\* The last answer, or an explanation instead of answers: one command.  When
\* the host refuses, the same question is asked again and the answer dropped.
Submit(p, answers) ==
  \/ /\ Command(p, answers, TRUE)
     /\ Forget(p) /\ state' = "running" /\ UNCHANGED forms
  \/ /\ Command(p, answers, FALSE)
     /\ ReissueRejected(p, answers) /\ UNCHANGED state

AnswerQuestion(p) ==
  /\ CurrentUi(p)
  /\ \/ /\ Head(replies).how = "answer" /\ ui[p].index = Questions[p]
        /\ Submit(p, ConfirmedWith(p))
     \/ Head(replies).how = "explain" /\ Submit(p, <<>>)
  /\ UNCHANGED unsettled

CompleteElicitation ==
  /\ Reply("question")
  /\ \E p \in Prompts :
       DeclineQuestion(p) \/ RejectAnswer(p) \/ NextQuestion(p) \/ AnswerQuestion(p)
  /\ UNCHANGED <<flow, seen, feedback, login, commands, missed, crashes>>

Idle == "idle"

\* submit_feedback: the prompt ends with a text, whatever the host says.
SubmitFeedback ==
  /\ feedback' = NoOffer
  /\ Answered(feedback.command)
  /\ state' = "running"
  /\ UNCHANGED forms

SettleFeedbackCancelled ==
  /\ feedback' = NoOffer
  /\ Withdraw(feedback.req)
  /\ Answered(feedback.command)
  /\ state' = Idle

\* complete_feedback: a form with a problem is put again; declined or
\* submitted, it is over.
CompleteFeedback ==
  /\ Reply("feedback")
  /\ IF feedback.req # Head(replies).req
     THEN UNCHANGED <<feedback, forms, commands, state>>
     ELSE IF Head(replies).how = "invalid"
          THEN /\ Ask(Form("feedback", 0, 1))
               /\ feedback' = [feedback EXCEPT !.req = NewForm]
               /\ UNCHANGED <<commands, state>>
          ELSE SubmitFeedback
  /\ UNCHANGED <<hostVars, wire, ui, seen, login, unsettled, missed, crashes>>

\* The page was opened (the login goes on) or refused (the flow is cancelled).
CompleteDeviceLogin ==
  /\ Reply("login")
  /\ IF login.req # Head(replies).req \/ Head(replies).how # "decline"
     THEN UNCHANGED <<login, commands, flow, wire>>
     ELSE /\ login' = NoOffer
          /\ Answered(login.command)
          /\ \/ UNCHANGED <<flow, wire>>
             \/ flow # 0 /\ flow' = 0 /\ wire' = Append(wire, Event("loginCompleted", flow))
  /\ UNCHANGED <<hostQ, hostGot, ui, seen, state, feedback, forms, unsettled, missed, crashes>>

\* session/cancel: a partly answered prompt is interrupted with what the user
\* confirmed and its form stays until the host says so; an open feedback form
\* is withdrawn and its prompt ends.
SessionCancel ==
  /\ \/ /\ \E p \in Prompts, ok \in BOOLEAN :
             /\ ui[p].open /\ ui[p].confirmed # <<>>
             /\ Command(p, ui[p].confirmed, ok)
     \/ Refused
  /\ feedback # NoOffer \/ \E p \in Prompts : ui[p].open
  /\ IF feedback = NoOffer THEN UNCHANGED <<feedback, forms, commands, state>>
     ELSE SettleFeedbackCancelled
  /\ UNCHANGED <<flow, ui, seen, login, replies, unsettled, missed, crashes>>

----------------------------------------------------------------------------
Host == (\E p \in Prompts : HostAsks(p) \/ HostRepeats(p) \/ HostSettles(p))
        \/ HostEndsLogin \/ HostRestarts

Editor == (\E f \in FormIds, how \in Hows : EditorAnswers(f, how))
          \/ EditorSendsFeedback \/ StartDeviceLogin \/ SessionCancel

Loop == BridgeUserInput \/ UserInputSettled \/ FinishDeviceLogin \/ StaleReply
        \/ CompleteElicitation \/ CompleteFeedback \/ CompleteDeviceLogin

Next == Host \/ Editor \/ Loop

Spec == Init /\ [][Next]_vars

----------------------------------------------------------------------------
(* Properties.                                                             *)

Notices == [kind : {"requested", "settled", "loginCompleted"}, what : Prompts \cup Nat]
Forms ==
  [kind : {"question", "feedback", "login"}, what : Prompts \cup {0}, index : Nat, live : BOOLEAN]
Walks == [open : BOOLEAN, req : Nat, index : Nat, confirmed : Seq(Nat)]
Offers == [req : Nat, command : Nat, flow : Nat]

HostOK ==
  /\ hostQ \in [Prompts -> {"none", "open", "settled"}]
  /\ hostGot \in [Prompts -> Seq(Nat)] /\ flow \in Nat
  /\ wire \in Seq(Notices)
  /\ \A i \in DOMAIN wire : wire[i].kind # "loginCompleted" => wire[i].what \in Prompts

FormsTable ==
  /\ forms \in Seq(Forms) /\ Len(forms) <= MaxForms
  /\ \A f \in DOMAIN forms : forms[f].kind = "question" => forms[f].what \in Prompts

RepliesOK ==
  /\ replies \in Seq([req : Nat, how : Hows])
  /\ \A i \in DOMAIN replies : replies[i].req \in DOMAIN forms

TypeOK ==
  /\ HostOK /\ FormsTable /\ RepliesOK
  /\ ui \in [Prompts -> Walks] /\ seen \subseteq Prompts
  /\ state \in {"running", "requires_action", Idle}
  /\ feedback \in Offers /\ login \in Offers
  /\ commands \in Seq([kind : {"feedback", "login"}, answers : Nat])
  /\ Len(commands) <= MaxCommands
  /\ unsettled \subseteq Prompts /\ missed \subseteq Prompts /\ crashes \in 0 .. MaxCrashes

Quiet == wire = <<>> /\ replies = <<>>

\* When nothing is on its way, the editor holds exactly the forms it can still
\* answer to some effect: one live form for every user input the host waits
\* for, at the question the walk is at, and none for one that is settled.  A
\* decline the host never received and a settlement lost with a host are the
\* exceptions.
FormForEveryQuestion ==
  Quiet => \A p \in Prompts :
    /\ hostQ[p] = "open" /\ p \notin unsettled => ui[p].open
    /\ hostQ[p] = "settled" /\ p \notin missed => ~ui[p].open
    /\ {f \in DOMAIN forms : forms[f].live /\ forms[f].kind = "question" /\ forms[f].what = p}
         = IF ui[p].open THEN {ui[p].req} ELSE {}
    /\ ui[p].open => forms[ui[p].req].index = Len(ui[p].confirmed) + 1

\* What the host settles a user input with is what the user confirmed: one
\* answer per question in the order they were asked, each from a form about
\* that question, never an answer the host had refused.
AnswersAreTheUsers ==
  \A p \in Prompts :
    /\ Len(hostGot[p]) <= Questions[p]
    /\ \A i \in DOMAIN hostGot[p] :
         LET f == hostGot[p][i]
         IN  /\ forms[f].what = p /\ forms[f].index = i
             /\ \A j \in DOMAIN hostGot[p] : j < i => hostGot[p][j] < f

\* Every /feedback prompt and every login request is answered exactly once: no
\* answer while its form is open, and no request left without a form and
\* without an answer.
EveryCommandAnsweredOnce ==
  \A c \in DOMAIN commands :
    commands[c].answers = IF c \in {feedback.command, login.command} THEN 0 ELSE 1

\* docs/event-compatibility.md:69 says of userInput/requested that a question
\* which cannot be shown is cancelled "so the turn cannot hang".
NoHangingQuestion ==
  Quiet => \A p \in Prompts : hostQ[p] = "open" => ui[p].open

\* main.rs:2274: "close the URL interaction and answer the login".  The
\* terminal of a cancelled flow answers the login that follows it.
LoginEndsWithItsFlow ==
  [][\A c \in DOMAIN commands :
       Head(wire).kind = "loginCompleted" /\ commands'[c] # commands[c] /\ wire' = Tail(wire)
         => c = Head(wire).what]_vars
==============================================================================
