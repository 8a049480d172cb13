# OneCloud Panel: models and proofs

OneCloud Panel is one Go process: an HTTP API in front of a SQLite database, one
goroutine per request, a pool of workers that executes background tasks, and
agents on remote nodes that the panel commands over HTTP. A Vue front end
(`src/web`) calls the API and keeps what it was told in the state of its pages.
This directory models the parts whose correctness depends on the order of events,
checks the models with TLC and proves about them with TLAPS.

## Components

Server (`src/internal`):

| component | source | state it keeps | operations |
|---|---|---|---|
| task table | `store/background_tasks.go` | rows: id, node, type, payload, status, output | create, claim, requeue, append output, finish, list |
| task runner | `runner/runner.go` | wake-up channel (one slot), a mutex per node, workers, hooks | Start, worker, execute, reconcile, Notify |
| task writer | `runner/writer.go` | buffer, flush goroutine | Write, WriteAll, flush, Close |
| self restart | `self/service.go` | restart rows | Restart, FinalizeBoot |
| panel process | `panel/panel.go` | cancelled context | boot sequence, shutdown |
| applications | `apps/`, `store/installations.go`, `api/app_handlers.go` | installation records; units and containers on the node | install, uninstall, start/stop/restart, reconcile |
| node service | `node/service.go`, `store/nodes.go`, `store/registration_tokens.go` | nodes, token hashes and sealed tokens, upgrade cooldown | register, confirm, heartbeat, rotate token, upgrade |
| agent | `agent/` | token in memory and in `agent.json`, upgrade state | register, heartbeat, execute, rotate, upgrade |
| self update | `update/update.go` | the executable and its `.new` and `.old` | Apply, replaceBinary |
| accounts | `api/user_handlers.go`, `api/setup.go`, `store/users.go` | users, roles, permissions | create, change, delete, first setup |
| sessions and login | `auth/`, `store/sessions.go` | sessions; failures and captchas in memory | login, resolve, revoke |
| password reset | `api/password_reset.go` | reset codes | request, confirm |
| notifications | `api/notify_*.go`, `notify/` | snapshots of nodes and applications in memory | probe loop, schedule loop, events |

Front end (`src/web/src`):

| component | source | state it keeps | operations |
|---|---|---|---|
| session and router | `session.js`, `api/http.js`, `router/index.js`, `App.vue`, `MainLayout.vue` | user, permissions, whether the panel is set up, route | load, guard, expire, log out |
| login and setup | `LoginView.vue`, `SetupView.vue` | forms, captcha | login, reset, setup |
| node page | `NodesView.vue` | table, selection, drawer with its panes and dialogs, add dialog | list, open, write, upgrade, add, delete |
| terminal | `NodesView.vue`, `api/terminal_handler.go`, `sshx/` | the current WebSocket, all the others, the form | open, connect, confirm, close, leave |
| apps page | `AppsView.vue`, `TaskProgressDialog.vue` | tables, dialogs, the task being followed | install, follow, custom applications, scripts |
| application page | `AppDetailView.vue` | state, journal, the configuration file being edited | act, edit, uninstall |
| accounts page | `UsersView.vue`, `SuperCodeDialog.vue` | table, dialogs, the code shown once | create, change, reset, renew |
| notification page | `NotificationsView.vue` | channels, schedule | edit, switch, delete, test |
| other pages | roles, settings, profile, audit, dashboard | forms and tables | save, list |

The API inserts a task row, answers, and calls `Notify`; a worker claims the row,
takes the node's mutex and calls the handler the row's type is registered with;
handlers call the node through its executor or its container engine and write
installation records; finish hooks write the audit record and wipe credentials.
When the process ends, rows stay `running`; the next process first closes restart
rows (`FinalizeBoot`), then asks each handler's reconciler what became of the
others, and starts the workers only after that. The node service and the agents
share a token; the notification loops read what heartbeats write. A page of the
front end runs on one thread but keeps several requests in flight: their answers
come in any order, to a page, a dialog or a form that may have moved on to
something else, and the WebSockets of a terminal act on one dialog.

What is hard here: `ClaimQueuedTask` is a SELECT and an UPDATE in two statements
whose row count nobody looks at; a crash can fall between any two statements;
workers claim in id order but lock in any order; handlers look up a record long
before they write it; service actions bypass the queue; a node call can fail after
it took effect. A rotation of a token has two parties and no transaction; a
program that replaces its own executable has no name under it for a moment. In the
front end what a handler reads after an `await` may no longer be what the user saw
when clicking.

What makes each component correct: the runner loses no row, runs one row of a node
at a time and never reopens a finished one; the applications' records agree with
the node; the writer keeps the output complete and in order; a node and its agent
never disagree on the token for good; an update leaves an executable at every
instant; an active administrator always remains; a change of state is notified
once. A page is right when what it shows, sends and says is about the node, task,
file, script or account the user has in front of them, and when no button stays
dead.

## Modules

| module | models | how |
|---|---|---|
| `Runner` | task table, runner, self restart, process boot and end | detailed state machine |
| `TaskQueue` | what the runner promises its users | abstract specification |
| `MCRunner` | | constants of the runs on `Runner` |
| `RunnerProofs` | | theorems about `Runner` |
| `TaskOutput` | a row's output: task writer and `AppendTaskOutput` | detailed state machine |
| `TaskOutputProofs` | | theorems about `TaskOutput` |
| `AppLifecycle` | install, uninstall, reconciliation, service actions of one application on one node | detailed state machine over the runner's promise |
| `AppProofs` | | theorems about `AppLifecycle` |
| `NodeToken` | registration of nodes, rotation of their tokens, between panel and agents | detailed state machine |
| `TokenProofs` | | theorems about `NodeToken` |
| `BinarySwap` | self update of the panel, upgrade of an agent | detailed state machine |
| `SwapProofs` | | theorems about `BinarySwap` |
| `AdminGuard` | first setup, changes and deletions of accounts, concurrently | detailed state machine |
| `WebBase` | | constants of the web pages |
| `NodeList` | table of nodes, batches, upgrades and their check | page |
| `NodeDrawer` | detail drawer with its panes and dialogs | page |
| `NodeAdd` | dialog that adds a node | page |
| `NodeTerminal` | terminal dialog and the server's end of its sockets | page and server |
| `AppInstall` | install and run dialogs, progress dialog, table of installed applications | page |
| `CustomApps` | custom applications and their files | page |
| `Scripts` | editing, deploying and running scripts | page |
| `AppDetail` | page of one application | page |
| `UserAdmin` | accounts and the codes shown once | page |
| `NotifyPage` | notification channels and schedule | page |
| `WebSession` | session, router, login, setup, logout | page and server |
| `LoginForm` | login with captcha, password reset | page and server |
| `MCNodes`, `MCPages` | | put the modules above together for TLC |
| `TerminalProofs` | | theorems about `NodeTerminal` |
| `NodeProofs` | | theorems about `NodeList`, `NodeDrawer`, `NodeAdd` and the whole of `MCNodes` |
| `PageProofs` | | theorems about the session, the other pages, `AdminGuard` and the whole of `MCPages` |

### Runner

| variable | code |
|---|---|
| `count`, `status`, `kind`, `key` | rows of `background_tasks`: last id, status, task type, the node's mutex key (0 without a node) |
| `proc`, `cancelled` | where `panel.Run` is: down, boot, listing, reconciling, working; whether the signal context is cancelled |
| `pc`, `cur`, `outcome` | each worker's place in `worker` and `execute`, the row in hand, the status its handler returned |
| `holder` | `nodeLocks`: who holds the node's mutex |
| `wakeup`, `toNotify` | the one-slot channel; handlers between the INSERT and `Notify` |
| `launching` | restart rows inserted whose restart is not yet launched |
| `todo`, `toReport` | the list of running rows `reconcile` goes through; a row finished whose hooks have not run |
| `hooks` | history: how often `fireFinish` ran for a row, up to `HookCap` |
| `faults`, `faulted`, `interrupted` | failing statements so far and the rows they were about; rows running when a process ended |

Every database statement is one step: the pool has one connection, which is given
back after each statement, so that another goroutine's can run between two; a
statement that fails without effect is a branch that adds to `faults`. `Begin` is
the mutex acquisition and the start of the handler, `HandlerReturns` its return,
`Finish`, `FireFinish` and `Release` the rest of `execute`. A handler is anything
that returns one of the two terminal statuses. A row of a type nobody registered
fails in `Begin`. The output column is the subject of `TaskOutput`; the contents
of payloads are left out.

### TaskQueue

Rows go absent, queued, running, settled; a node works on one row at a time, only
queued rows start (a row may be handed out twice, which the code allows), an ended
process lets go of everything, and only a boot puts a running row back in the
queue or settles it. `Runner` implements it with `busy` mapped to the row in the
hand of the mutex's holder.

### TaskOutput

One row's `output` column over successive executions. `task` is where `execute`
is: start, running, end (the WriteAll calls and the handler between them),
closing, joining, final (`Close`); `loop` and `stop` are `flushLoop` and its stop
channel; `buf` is the buffer. A flush of either goroutine is three steps: `Take`
under the writer's mutex, then `Fetch` and `Save`, the SELECT and the UPDATE of
`AppendTaskOutput`, under none; `step`, `chunk`, `seen` hold its progress. Output
is counted in lines, numbered as written; `Mark` (0) is the line that says that
earlier ones were cut off, and `Cap` stands for both limits of 1 MiB. `written`
and `overlap` are history. What a process takes with it when it ends, at most the
buffer and one flush, is left out, as is `Write` after `Close`, which drops its
argument and which nothing calls.

### AppLifecycle

One application on one node. `rec` is its row of `app_installations`; `art` is
what each method left on the node: nothing, a unit or container that is present,
one that is running, or a `stray`, a native service still active whose unit file
has been removed. `cur`, `pc`, `verdict` are the handler in progress: check,
deploy, start, verify, record for an install; check, stop, remove, forget for an
uninstall. The runner appears as `TaskQueue` promises it: `Claim` may hand a row
to one or two workers, which execute it one after the other. Reconciliation is one
action per answer: requeued when the node is unreachable, else decided by what the
node says. `Fails` stands for a call to the node that gets no answer and may have
taken effect, or a reading of the record that fails; exit codes and statuses the
code ignores are ignored here: a stop or a removal that the node refuses
(`Replies`) lets the uninstall go on, and an install that could not read the
record (`blind`) goes on over whatever is there. Whether a recipe declares a
healthcheck, and whether it passes, is nondeterministic; the difference between a
record in state `installed` and `error` is not kept. `last`, `tried`, `disturbed`,
`refused` and `blind` are history for the properties.

### NodeToken

Several machines register with one registration token, then the panel rotates the
token of any node at any time. `usedCount` is the registration token's count;
`registering` the requests in progress, each at the statement it has reached
(`ClaimRegistrationToken`, `CreateNode`, `saveEncryptedToken`); `nodeToken`,
`nodeAgent`, `sealed` and `deletedNodes` are the rows of nodes: the hash of the
token, whom it was given to, whether the sealed copy that commands are sent with
was stored. `holder` is the token in an agent's memory, `agentFile` the one in
`agent.json`, `home` its node. `rotating` holds the rotations, any number for one
node at a time, since neither side keeps them apart: sent to the agent, admitted
by its middleware (`auth`, which compares the token), taken by its handler
(`rotate`, which sets the new one without looking again) and not yet stored;
`waiting` says whether the panel still waits. A statement that fails, an answer
that is lost and an agent that restarts are actions or branches. `torn` is
history: nodes that lost the outcome of a rotation, or whose agent had admitted
two at once.

### BinarySwap

One directory with the executable and the files beside it. `dir` maps the names
`exe`, `new`, `old` to files, `whole` are the files that are complete. `side` says
whether the panel or an agent owns it. Each update is a request with its place in
`pc`. After the download and `CheckDownload` the panel renames the executable away
(`Backup`), the new file into its place (`Place`), makes it executable (`SetMode`)
and removes the backup (`DropOld`); what fails after the first rename is undone
(`Discard`, `RollBack`). The agent tries a single rename first (`SwapAtOnce`) and
takes those steps when it is refused, after removing an old backup (`ClearOld`);
its flag `agentBusy` refuses a second upgrade. `faults` counts operations on the
directory that failed. The process may end before any step (`EndProcess`) and
start again; `interrupted` remembers that it ended, or a rollback failed, while
the executable's name may have been vacant, `overlap` that two updates were in
progress together.

### AdminGuard

`person` holds the accounts with role and status, `asks` the requests that change
or delete one, each at the statement it has reached: the target is read, the other
administrators are counted (`others`), status and role are written by two
statements, or the account is deleted. A check that cannot read the target or a
role lets the request go on (`CheckUpdateUnread`, `CheckDeleteUnread`), which the
history `unread` records. Setup and the creation of an account are one step each,
the first because of its lock.

### The web pages

The modules of the front end share one reading of the code (`WebBase`). A handler
runs to its first `await` in one step and so does what follows each answer. A
request in flight is a record in a set, with what its answer will be applied to;
the answer comes in any order, may be an error, and takes the record out. A list
is a snapshot of the server's when it matters that it may be old. Dialogs and
questions are modal as in the page: what is behind one cannot be clicked. Data is
abstracted to where it comes from: rows are those of a node, a text is that of a
file.

- `NodeList`: `rows`, `selected`, `question`, the requests `acts` and the lists in
  flight; `agent` is the version each node really runs; `check` is
  `verifyUpgradeLanded`, a timer of several rounds that reads the list, and `told`
  what it has told the user.
- `NodeDrawer`: `cur` is the record every request is sent to, `pane` the node
  whose rows each pane shows, `forms` that of the forms, `dlg` the dialog or
  question above, with the node of the row it was opened for. `late` remembers an
  answer that came after the drawer had moved on.
- `NodeAdd`: `ssh` are the form objects, one per opening; `pin` is the fingerprint
  shown; `asked` are requests, which keep the form they were sent for.
- `NodeTerminal`: `termSock` are all WebSockets ever opened, with the server's
  state of each (waiting for a start, dialling, shell), the dialog and the node
  each belongs to; `termWs` the current one. The host key policy of `sshx` is part
  of the server's step. `termHost` may change: a machine is reinstalled.
- `AppInstall`: `tasks` on the server, over or not, successful or not; `taskId`,
  `polled` and `pollStep` of the progress dialog, whose last button comes with a
  failure as well; `orphans` the polls of closed dialogs; `chains` are the
  readings of the table, node by node, where only an installation that succeeded
  has a row.
- `CustomApps`, `Scripts`, `AppDetail`, `UserAdmin`, `NotifyPage`: one dialog used
  again and again, and answers that find it closed, or open for something else.
- `UserAdmin`: a code the panel makes (`CodeMade`) comes to the page
  (`showSuperCode`), or does not (`UserFails`: an error after it was made, a lost
  answer, a page that was left); `LeaveUsers` may come at any time,
  `CloseSuperCode` is the button, the cross and Escape alike. In `NotifyPage` an
  edit may be stored (`Stores`) though the page is told that it failed.
- `WebSession`: `cookie` and the server's `live` sessions against what the page
  believes (`user`, `route`, `going`, `expired`); a call carries the cookie there
  was when it was sent. What ends a session has two steps, the server's
  (`RevokeServed`, `LogoutServed`) and the answer's (`RevokeCame`, `LoggedOut`),
  which also takes the cookie; other calls may be answered in between. `denied`
  says whether the server itself has ended the session begun last, or answered 401
  for it. `LoginForm` has the form with its captcha.

History variables and fields are read by properties only. `due`, `accepted`,
`unseen`, `denied` and `termConfirmed` remember what happened; the others (`late`,
`sure`, `meddled`, `termMoved`, `termDoubled`, `termAbandoned`, `swapped`,
`listMissed`, `custLeft`, `configLate`, `stray`, `crossed`, `overlapped`,
`hidden`, `overlap`, `torn`, `interrupted`) that something happened in which the
code does not keep a promise, so that the property says exactly where it does.
What follows from those situations is under "Also seen".

`MCNodes` and `MCPages` hold several parts that share no state. Their variables
`part` and `page` choose, in the initial state, the part that moves: the states of
a run are the sum of those of its parts, not the product.

## Runs

| run | instance | shows |
|---|---|---|
| `runner_safety` | 2 workers, 2 rows, 2 mutexes, a registered and an unregistered type, 1 end of the process, 1 failing statement; workers symmetric | the safety properties and `TerminalNeverReopens` |
| `runner_live` | same, one type, no failing statement, fairness | every queued row settles; `Runner` implements `TaskQueue` |
| `runner_hooks` | 2 workers, 1 row | violated: hooks may run twice |
| `output_writer` | 2 executions, 3 lines of handlers, a cap of 4, 1 failing statement, fairness | what the column keeps; `Close` returns |
| `output_forced` | 1 execution, 1 line | violated: WriteAll's line can be erased |
| `apps_safety` | 3 rows, 1 end of the process, 1 failing call or reading, refused stops and removals | record against node |
| `apps_method` | 2 rows | violated: the method a task carries can be stale |
| `apps_conflict` | 1 row | violated: an orphan container blocks install and uninstall |
| `web_nodes` | 2 nodes, 2 machines, 2 agents, 2 updaters; see below | the node page, the tokens and the executables behind it |
| `web_pages` | 2 nodes, scripts, accounts, channels, files; see below | the session and the other pages |
| `term_leak` | 1 node, 1 dialog, 2 sockets | violated: a socket outlives the page |
| `last_admin` | 2 accounts, 2 requests | violated: no administrator is left |

Two workers and two rows give every race of the claim, of the mutex and of the
wake-up: each property speaks of at most two workers or one row. One end of the
process is enough for a crash at any step followed by a complete boot, and the
proofs below cover any number. Three rows of one application give an install, an
uninstall and a third that meets what they left, or one executed twice.
`MaxTasks`, `MaxDowns`, `MaxFaults`, `MaxErrs`, `MaxExecs`, `MaxLines` bound
counters; `HookCap` is where counting hooks stops. Deadlock is checked for the
runner. It is not for the pages and what is behind them, where a user may stop
clicking and the bounds end; nor for the applications, where nothing remains to be
done once every row is settled and the record has neither a service nor a task,
nor for the writer, which is done after its last execution (`ExecutionEnds` says
that none is stuck).

Properties of `Runner`: `NodeSerial` (tasks of one node never overlap),
`RunningIsOwned` (no running row without somebody to finish it), `NoLostWakeup`,
`RestartConfirmed` (a restart that happened is not reported as failed by the
boot), `TerminalNeverReopens`, `EveryTaskSettles`, `RunnerImplementsQueue`.
Properties of `TaskOutput`: `NoneTwice` (no line stored twice), `WriterStopped`
(nothing of an execution is left to be stored when the node is given back),
`CompleteUnlessOverlapping` (where no flushes overlapped and no statement failed
the column has the lines to the last without a gap, from the first or after the
mark), `ExecutionEnds`. Up to seven lines against a cap of four cut the buffer and
the column; the second execution is what a late flush of the first would hit.
Properties of `AppLifecycle`: `InstalledHasRecord`, `RecordNotContended` (an
install that has read that there is no record meets none before it writes its
own), `RecordHasArtefact`, `UninstalledIsGone`. The last two are stated where no
call failed and nothing disturbed the tasks, the last one of an uninstall that the
node did not refuse: otherwise they do not hold, by the code's choice to ignore
what comes of stop and remove.

Bounds of `web_nodes`: two nodes, one of them remote, tell the node in front of
the user from the one a late answer is about. Two requests in flight (`MaxCalls`)
are two answers in either order; two openings of a dialog (`MaxForms`,
`MaxDialogs`) an answer that finds the next one; three sockets one left behind,
one current and one to come. `MaxRounds` is 2 rounds of the check instead of 9: a
round that is the last and one that is not. `Panes` is one pane, since panes are
alike; the theorems are about any. Two agents, two uses and four tokens are a
registration that races another and two rotations of one node; two updates, three
files, four failing operations and one end of the process reach every step of an
update cut short or failing, a rollback that fails and the attempt after it.
Bounds of `web_pages`: three sessions and pictures are one that ended, one
replaced and one current; two tasks, applications, dialogs and readings are one
and the next; one edit of a channel is one that a stale switch can undo. Both runs
are symmetric in their two users, scripts, machines and so on (`Sym`), which no
definition tells apart; nodes and files are not.

Properties checked by `web_nodes`: `UpgradeNewsTrue` (what the check after an
upgrade says is so), `SpinnersCanEnd` (an upgrade or batch button that is disabled
has an answer coming, the terminal's connect button an open socket, unless its
dialog was closed while connecting; the agent's flag that refuses upgrades is up
only during one), `ScreenOfOneNode`, `WriteGoesWhereListed` (formatting, mounting,
firewall rules and tags reach the node whose row the user saw), `PinBelongsToHost`
(an installation pins the fingerprint of its own host), `ShellVouched` (a shell is
opened only with a fingerprint the user confirmed in that dialog),
`KeysGoToTheTitle` (keys reach the node in the title), `TokensMatch`,
`NeverOverused` (no more nodes than a registration token's uses),
`ProgramSurvives` (a failing update leaves a whole executable, an interrupted one
a whole copy). By `web_pages`: `PageFitsSession`, `ExpiredIsHonest` (only a user
whose session the server has ended or refused is told that it expired, or for a
moment one who is logging out), `CodeAnswersThePicture`, `TaskIsFollowed` (the
progress dialog shows the task it was opened for, to its end), `FinishedIsListed`
(an installation seen to succeed is in the table read afterwards),
`UploadFollowsSave` (a file goes to the application it was chosen for),
`DialogsKeepTheirScript`, `ConfigSavedWhereRead` (a configuration file is not
overwritten with another's text), `NewCodeIsShown` (a code that ended the old one
and reached the page is on the screen until the dialog is closed or the page
left), `SwitchKeepsTheEdit` (a switch does not undo an edit the page was told of).

Fairness: the boot goroutine, the exit of a stopped process, `Notify` after the
INSERT and each worker's goroutine are weakly fair, since the Go scheduler runs
every runnable goroutine. `HandlerReturns` is among a worker's steps: handlers
return because every call they make has a timeout (30 minutes at most,
`agentclient/client.go`). `Begin` is strongly fair: `sync.Mutex` goes into
starvation mode after a millisecond and then serves its waiters in order. In
`TaskOutput` the task's goroutine and the flush loop are weakly fair. No fairness
is assumed of requests, signals or crashes.

## What the code does that its text denies

- `runner_hooks`: `runner.go:36` says finish hooks are called once on either path.
  A row claimed by two workers is executed twice and reported twice; its second
  execution may also replace success by failure. A crash between `FinishTask` and
  `fireFinish` means the hooks never run.
- `output_forced`: `writer.go:43` says WriteAll forces its content into the
  database. A flush of the loop that has read the column before and writes it
  afterwards erases it: a failed task can end without its error line.
- `apps_method`: the uninstall method is read when the request is served, not when
  the task runs; a container can stay behind without a record.
- `apps_conflict`: a container that could not be started stays without a record;
  the install error asks for an uninstall, which is refused.
- `term_leak`: the comment at `NodesView.vue:1445` says that leaving the page
  releases the terminal's WebSocket. A connection confirmed by its fingerprint
  opens a second socket without closing the first, which stays open.
- `last_admin`: the refusal at `user_handlers.go:394` and 659 says that one active
  administrator must be kept. Two requests about the last two count each other.

Denied by a text as well, though without a run of its own, since the module's
properties exclude it: `update.go:360` says that any failure keeps the old
executable complete, `update.go:411` and `agent/upgrade.go:190` that there is
always a complete executable under the name. Two updates of the panel at once
share `.new` and `.old` without a lock and can leave an incomplete executable or
none; a crash between two renames leaves none under the name; an attempt after an
agent's failed rollback deletes the only copy.

Also seen, not denied by any text. On the server:

- an uninstall that the node refuses to stop or to remove (an exit code of
  `systemctl` or `rm`, a status of the engine) deletes the record all the same
  (`native.go:104` and 111, `docker.go:442`-450); an install that cannot read the
  record goes on over an application that is installed (`native.go:31`,
  `docker.go:123`);
- a request that changes or deletes an account goes on when the role of its target
  cannot be read (`user_handlers.go:779`-782) or the target itself (657): alone it
  then may demote or delete the last administrator;
- an uninstall decided by reconciliation leaves its record behind; a task whose
  node is unreachable at boot is executed again, not reconciled later; start, stop
  and restart act on a node while a task does;
- the lost outcome of a rotation, and an agent's restart after one, leave panel
  and agent with different tokens for good (`service.go:515`,
  `agent/handler.go:243`). So do two rotations of one node at once that the
  agent's middleware both admits before either is set (`agent/handler.go:68`-87
  and 235-245): the panel has no lock (`node_handlers.go:453`-475) and may store
  them in the other order;
- a logout whose request fails leaves the server's session alive; a logout
  answered late clears the cookie of a newer session.

In the front end:

- `NodesView.vue`: a filter can hide a node from the check of its upgrade, which
  then says that nothing changed; `runBatch` and `saveMeta` catch no error;
  `liveErr` is never cleared; `openDetail` applies the answer for one node after
  another was opened; a late detail changes the node under an open terminal;
  closing the terminal's dialog while it connects leaves the spinner in the next
  one, with nothing to take it down; the second request of a mount goes to the
  node current by then; `saveNetworkType` calls `loadDetail`, which does not
  exist;
- `AppsView.vue`: the answer of another start changes the task under the progress
  dialog; an upload that fails after its application was created leaves a record
  that a second try creates again; closing the dialog of a custom application
  during a save loses its file, and opening another one meanwhile uploads that
  one's file, or to that one's application (785, `editingId` and `binaryFile` are
  read after the `await`); a reading of the table that overlaps a later one may
  overwrite it with its older rows; `openDeployScript` resets the switch of
  automatic start when the node stays the same; the variables of a recipe are read
  under lower-case names (149-158) that the API does not use;
- `SetupView.vue`: when the first account is created and reading it back fails,
  its recovery code is never shown; `SuperCodeDialog.vue` does not name the
  account a code is for;
- `AppDetailView.vue`: saving while a file just chosen is being read, or after the
  late answer of another one, overwrites the file with the other's text (262-290,
  path and text are filled apart);
- `UsersView.vue`: a new super code is lost, and the old one void, when the dialog
  is closed by the cross or Escape before it is saved (`SuperCodeDialog.vue:2`-3),
  when the page is left during the request (357-374), when two requests for a code
  meet, when the answer is lost, and when a password reset fails after it has
  changed the code (`user_handlers.go:514`);
- `NotificationsView.vue`: an edit stored, but answered 500 because the channel's
  events could not be saved (`notification_handlers.go:268`-275), or whose answer
  is lost, does not reload the rows, and the channel's switch then undoes it;
- a 401 between the server's end of a logout and its answer shows for a moment
  that the session has expired.

## Proofs

All theorems are for every number of workers, rows, nodes, accounts, requests,
ends of the process and faults, from the named assumptions of the modules only.
These say that bounds are natural numbers, that the model values differ from each
other, that the pool has a worker (`Workers # {}`; the code has three,
`runner.go:30`) and that the database holds finitely many accounts.

`RunnerProofs`: type correctness with the rows in workers' hands (`TypeInv`).
`NodeSerialHolds` needs `SerialInv`: rows in hand have been inserted, so their key
no longer changes, and a worker between lock and unlock holds the mutex of its
row's key. `TerminalIsFinal` and `RunningIsOwnedHolds` need `StatusInv`: workers
only run in a working process, rows on the reconciliation's list are still
running, which is why a requeue cannot reopen one, and rows in hand are of a
queued kind. `HooksFollowStatusHolds` adds that whoever is about to run hooks has
written the status, or the row is faulted. `RestartConfirmedHolds` adds that rows
interrupted by an end of the process are kept until `FinalizeBoot` and are not on
the reconciliation's list after it. `NoLostWakeupHolds` from `Awake`, which is
stronger: it counts every worker that will look at the table before it waits, not
only the token and the notifications.

`RunnerRefinesQueue` proves the refinement of `TaskQueue`, step by step, for
panels whose database statements succeed (`[](faults = 0)`, what the run checks as
well); after a lost terminal write a node rests on a row that is still running,
which the abstract queue rules out. `QueueInv` gives each step what it needs to be
one of the queue's: a locked mutex is held by a worker with a row of that node
(`HolderWorks`), which gives `busy` its meaning; a claim to be confirmed names the
oldest queued row (`OldestFirst`), unless somebody took it; a row is settled
before its hooks run (`SettledInHand`); a restart row still to be launched or
reconciled is open or already failed (`RestartOpen`).

`TaskOutputProofs`: type correctness includes that column and buffer respect their
caps (`BufferedType`, `MergedType`). `WriterStoppedHolds` from `StoppedInv`: a
goroutine is only in a flush where it flushes, a loop that has ended is in none,
and it has ended before `Close` flushes for the last time. `NoneTwiceHolds` from
`DistinctInv`: a line is in one of buffer, chunks and column only, and what a
flush has read of the column has none of the lines still to be stored. This holds
with overlapping flushes too, which lose lines but repeat none. `CompleteHolds`
from `BufferInv` (without an overlap one flush is under way, and the last takes
all there is) and `FlowInv`: column, chunk and buffer follow each other without a
gap, each complete or headed by the mark. `CompleteUnlessOverlapping` says as much
of the column at the end, with the first line as well as the last.

`AppProofs`: type correctness with the workers' claims (`TypeInv`);
`InstalledHasRecordHolds` from `Recorded`: while a row executes nothing has been
decided, and a handler about to return success for an install has a record.
`RecordNotContendedHolds` from `Uncontended`: from the check to the write no
record exists, if the check could read that there was none, because only the
executing task and the boot write records. `RecordHasArtefactHolds` and
`UninstalledIsGoneHolds` from `SiteInv`, which is about nodes whose calls all
answered and tasks nothing disturbed: a unit is stopped before its file is
removed, unless the node refuses (`StopFirst`); what an install has deployed has
its unit file, a stray service included that an earlier refused uninstall has left
(`InPlace`, `Kept`); and at each step of a handler what is on the node is what the
steps before have left (`Worked`, `Emptied`).

`TokenProofs`: `TokensAgree` needs that a rotation that comes late is refused, and
one that was admitted is alone in the agent unless the node is `torn`. The
invariant `SomeInv` says that there is a function `own` that names one node for
each token made (`Belongs`), so that requests and agents hold tokens of their own
node only, that the new token of a rotation is nobody's old one and unknown to the
panel until it is stored, and known to the agent once it was taken (`New`,
`Rotates`). A new token extends `own`; every other step leaves it. `NotOverused`
counts with the theorems on finite sets: the nodes made and the registrations
under way are no more than `usedCount`. `TokenTyped` is the type invariant.

`SwapProofs`: `ProgramKept` (`ProgramSurvives`), `FlagFreed` (`UpgradePossible`),
`SwapTyped` from `SwapInv`: the names hold different files (`FilesApart`); an
ended process is at no step (`EndedIdle`); and, of a single update, `InPlace` says
that executable and backup are whole or not there, and for each step (`Knows`)
which of the names hold a whole program and how many operations of an agent must
have failed before.

`TerminalProofs`: types with `SocketsBelong` (a socket in use belongs to a dialog
opened and to its node); `ShellsAreVouchedFor` from `Pinned`, which carries the
fingerprint from the form to the socket that was started with it and no further;
`OneSocket`, `KeysFollowTheTitle` and `TerminalSpinnerCanEnd` with one case per
step.

`NodeProofs`: `DrawerInv` says that, unless something came late, a pane shows the
drawer's node or a request for it is in flight (`PanesFollow`), and that a dialog
opened on a settled screen holds the node of its row (`DialogHolds`);
`OneNodeOnScreen` and `WritesReachTheirNode` follow; `PanesThere` adds what its
types need. `AddInv` ties each probe, each form and each installation to one host
(`PinsTheHost`, `AddTyped`). `ListInv` is about the table and the check after an
upgrade: no list shows the new version of a node that has not reported it
(`SeenNew`), a check has one list in flight (`OneRound`), and the list of a round
that must find the new version is unfiltered and, once served, shows it
(`DueRounds`); `UpgradeNewsHolds` follows. `PartsOfThePage` proves that a
behaviour of the composition `MCNodes` is one of every part, so that the theorems
above, and those of the terminal, the tokens and the executables, hold of the
specification the run checks: `NodesTyped`, `SpinnersCanEndHolds`, `NodePageSafe`.

`PageProofs`: `CodeInv` (no two requests of the page for a code are in flight
unless `crossed`, and none while a code is shown), `CaptchaInv` (the code in the
form is empty or was read from the picture in it), `EditorInv` (the text is of the
chosen file, or a reading of it is in flight), `ScriptsInv` (what is in a script's
dialog is of its script). `CustInv`: one save or upload is in flight across
dialogs (`OneSave`), of the dialog on the screen or of one that was left
(`SaveOfTheDialog`), whose file and application are those of the form
(`FormOfTheDialog`). `InstallInv`: the dialog asks about its own task (`Asked`),
what it has shown as over is (`TrueEnds`), and a reading alone has each
installation seen to succeed or still its node to read (`Listed`). `ChannelInv`:
where edits have not met other changes of the rows, and none was stored and
reported as failed, these are those of the last edit, or are being read
(`Current`). `SessionInv`, the largest: whether the document knows the panel to be
set up (`KnowsSetUp`) and what it may show and send before; and, while no two
logins, setups or logouts overlapped, that one form or `initSession` is in flight,
on the page it began on (`OneChain`), that on the login page a call of a protected
page is of an older session (`OldCalls`), that the page shown and the page on its
way fit the user (`Coming`), and what the server must have done of a session whose
user has gone, whose cookie was taken or which is said to have expired (`Ended`):
ended it, refused it or served its logout, whose answer is on its way.
`PageFitsSessionHolds` and `ExpiredIsHonestHolds` follow.

Of the account requests: `AdminRemains`, which two requests at once violate
(`last_admin`), holds as long as they do not overlap and none goes on unchecked
because a reading failed (`AdminRemainsAlone`), whatever accounts are created
meanwhile and wherever a request fails. `AskSafe` says what a request past its
check knows: it takes nobody's rights or there is another administrator. So the
interleaving is all that is wrong with the check. `PartsOfThePages` does for
`MCPages` what `PartsOfThePage` does for `MCNodes`: `PagesTyped`, `PagesSafe`.

Every invariant of a passing run is thus proved, as are the action property and
the refinement of the runner. Model-checked only: the liveness of
`EveryTaskSettles` and `ExecutionEnds`, since the prover reaches neither fairness
with `ENABLED` nor leads-to. What the violated runs show has of course no proof.
Proved only, in no run: `HooksFollowStatus`, `OneSocketUnlessDoubled`,
`AdminRemainsAlone`.

## Not modelled

- Notifications of the server (`notify_probe.go:47` and 95, `notify_schedule.go`):
  the snapshots live in one goroutine each and a lost event is the accepted
  outcome of a restart.
- Sessions, login limits and reset codes on the server (`auth/`,
  `password_reset.go:239`): only as much of them as `WebSession` and `LoginForm`
  need.
- Of the node service: `Confirm` and edits that read and write back a whole node
  (`service.go:426`), the cooldown of upgrades (`service.go:233`), heartbeats'
  metrics. A compensation that fails (`registration_tokens.go:111`) only costs
  uses, which `NeverOverused` covers.
- Of updates: the panel's restart into the new file by another unit, the result
  stored for the page, and what a file system loses of whole files at a loss of
  power.
- `apps/tasks.go:289`: the record that a reconciled uninstall leaves, named above.
- The output of `Write` after `Close`, audit storage and host metrics.
- Parsers (storage, firewall), recipes, the engine's client, SSH, TLS, secrets,
  mail and message senders: input and output or formatting, without an order of
  events to get wrong.
- Pages of roles, settings (but for `applyUpdate` in `BinarySwap`), profile, audit
  and dashboard: each loads and saves one form.
