----------------------------- MODULE NotifyPage -----------------------------
(***************************************************************************)
(* The notification channels and the schedule of the state summary         *)
(* (web/src/views/NotificationsView.vue).                                  *)
(*                                                                         *)
(* The switch of a row sends the configuration the row has, the dialog the *)
(* one typed into it. A configuration is a version: 0 is the one there was *)
(* at first, each save of the dialog makes the next. A list is served at   *)
(* one moment and applied at a later one. Channels that are created,       *)
(* messages and the fields of a configuration are left out.                *)
(***************************************************************************)
EXTENDS WebBase, FiniteSets

CONSTANTS
  Channels,     (* channels there are at first *)
  MaxEdits      (* bound: dialogs submitted    *)

ASSUME ChannelAssumption == None \notin Channels /\ MaxEdits \in Nat

VARIABLES
  channels,       (* of each channel: configuration, whether enabled, or gone  *)
  items,          (* the rows                                                  *)
  itemsLoading,   (* the table is covered                                      *)
  channelDlg,     (* the dialog or question: its kind and channel              *)
  channelSaving,
  testingId,      (* the row whose test button spins                           *)
  sched,          (* the schedule's form: blank or loaded                      *)
  schedSaving,
  edits,          (* configurations made so far                                *)
  channelCalls,   (* requests in flight                                        *)
  accepted,       (* history: of each channel the configuration whose save the *)
                  (* page was told of last                                     *)
  hidden,         (* history: channels with an edit stored since, but reported *)
                  (* as failed                                                 *)
  overlapped      (* history: an edit met another request, or a list failed    *)

channelHist == <<accepted, hidden, overlapped>>
channelVars == <<channels, items, itemsLoading, channelDlg, channelSaving, testingId, sched,
                 schedSaving, edits, channelCalls, channelHist>>

Row(v, on) == [config |-> v, enabled |-> on, gone |-> FALSE]
Gone == [config |-> 0, enabled |-> FALSE, gone |-> TRUE]
NoRows == [c \in Channels |-> Gone]

ChannelCall(op, c, v, on) ==
  [op |-> op, channel |-> c, config |-> v, enabled |-> on, served |-> FALSE, snap |-> NoRows]
ChannelAsk(op, c) == ChannelCall(op, c, 0, FALSE)
ListRows == ChannelAsk("load", None)

ChannelRoom == Cardinality(channelCalls) < MaxCalls
NoChannelDlg == [kind |-> "none", channel |-> None]
RowInReach(c) == channelDlg = NoChannelDlg /\ ~itemsLoading /\ ~items[c].gone
DropCall(c) == channelCalls' = channelCalls \ {c}

ChannelInit ==
  /\ channels = [c \in Channels |-> Row(0, FALSE)]
  /\ items = NoRows /\ itemsLoading = TRUE
  /\ channelDlg = NoChannelDlg
  /\ channelSaving = FALSE
  /\ testingId = None
  /\ sched = "blank" /\ schedSaving = FALSE
  /\ edits = 0
  /\ channelCalls = {ListRows, ChannelAsk("loadSchedule", None)}
  /\ accepted = [c \in Channels |-> 0] /\ hidden = {}
  /\ overlapped = FALSE

-----------------------------------------------------------------------------
(* The rows *)

ServeRows(c) ==
  /\ c.op = "load" /\ ~c.served
  /\ channelCalls' = (channelCalls \ {c}) \cup {[c EXCEPT !.served = TRUE, !.snap = channels]}
  /\ UNCHANGED <<channels, items, itemsLoading, channelDlg, channelSaving, testingId, sched,
                 schedSaving, edits, channelHist>>

\* The first of several answers uncovers the table.
RowsCame(c) ==
  /\ c.op = "load"
  /\ DropCall(c)
  /\ itemsLoading' = FALSE
  /\ \/ c.served /\ items' = c.snap /\ UNCHANGED overlapped
     \/ ~c.served /\ overlapped' = TRUE /\ UNCHANGED items   \* it fails
  /\ UNCHANGED <<channels, channelDlg, channelSaving, testingId, sched, schedSaving, edits, accepted,
                 hidden>>

load2(c) ==
  /\ channelCalls' = (channelCalls \ {c}) \cup {ListRows}
  /\ itemsLoading' = TRUE

-----------------------------------------------------------------------------
(* Dialogs *)

\* openEdit and the question before a deletion.
OpenChannelDlg(kind, c) ==
  /\ RowInReach(c)
  /\ channelDlg' = [kind |-> kind, channel |-> c]
  /\ UNCHANGED <<channels, items, itemsLoading, channelSaving, testingId, sched, schedSaving, edits,
                 channelCalls, channelHist>>

CancelChannelDlg ==
  /\ channelDlg # NoChannelDlg
  /\ channelDlg' = NoChannelDlg
  /\ UNCHANGED <<channels, items, itemsLoading, channelSaving, testingId, sched, schedSaving, edits,
                 channelCalls, channelHist>>

save(on) ==
  /\ channelDlg.kind = "edit" /\ ~channelSaving
  /\ ChannelRoom /\ edits < MaxEdits
  /\ edits' = edits + 1
  /\ channelSaving' = TRUE
  /\ channelCalls' = channelCalls \cup {ChannelCall("edit", channelDlg.channel, edits + 1, on)}
  /\ overlapped' = (overlapped \/ \E x \in channelCalls : x.op \in {"load", "toggle", "delete"})
  /\ UNCHANGED <<channels, items, itemsLoading, channelDlg, testingId, sched, schedSaving, accepted,
                 hidden>>

\* The panel has stored what was sent, of a channel that is there.
Stores(c) ==
  /\ ~channels[c.channel].gone
  /\ channels' = [channels EXCEPT ![c.channel] = Row(c.config, c.enabled)]

\* Mutant of ChannelSaved: the rows are not asked for again.
ChannelSavedOnly(c) ==
  /\ c.op = "edit"
  /\ channelSaving' = FALSE
  /\ DropCall(c)
  /\ \/ /\ Stores(c)
        /\ accepted' = [accepted EXCEPT ![c.channel] = c.config]
        /\ hidden' = hidden \ {c.channel}
        /\ channelDlg' = (IF channelDlg.kind = "edit" THEN NoChannelDlg ELSE channelDlg)
     \/ UNCHANGED <<channels, accepted, hidden, channelDlg>>
  /\ UNCHANGED <<items, itemsLoading, testingId, sched, schedSaving, edits, overlapped>>

\* A success closes the dialog that is open by now and asks for the rows. A
\* failure does neither, even where the configuration is stored: the channel's
\* events, saved after it, failed, or the answer was lost.
ChannelSaved(c) ==
  /\ c.op = "edit"
  /\ channelSaving' = FALSE
  /\ \/ /\ Stores(c)
        /\ accepted' = [accepted EXCEPT ![c.channel] = c.config]
        /\ hidden' = hidden \ {c.channel}
        /\ channelDlg' = (IF channelDlg.kind = "edit" THEN NoChannelDlg ELSE channelDlg)
        /\ load2(c)
     \/ /\ Stores(c) /\ hidden' = hidden \cup {c.channel}
        /\ DropCall(c) /\ UNCHANGED <<accepted, channelDlg, itemsLoading>>
     \/ DropCall(c) /\ UNCHANGED <<channels, accepted, hidden, channelDlg, itemsLoading>>
  /\ UNCHANGED <<items, testingId, sched, schedSaving, edits, overlapped>>

remove ==
  /\ channelDlg.kind = "delete" /\ ChannelRoom
  /\ channelDlg' = NoChannelDlg
  /\ channelCalls' = channelCalls \cup {ChannelAsk("delete", channelDlg.channel)}
  /\ overlapped' = (overlapped \/ \E x \in channelCalls : x.op = "edit")
  /\ UNCHANGED <<channels, items, itemsLoading, channelSaving, testingId, sched, schedSaving, edits,
                 accepted, hidden>>

\* The deletion may be done although its answer is lost.
Removed(c) ==
  /\ c.op = "delete"
  /\ \/ channels' = [channels EXCEPT ![c.channel] = Gone] /\ load2(c)
     \/ /\ channels' \in {channels, [channels EXCEPT ![c.channel] = Gone]}
        /\ DropCall(c) /\ UNCHANGED itemsLoading
  /\ UNCHANGED <<items, channelDlg, channelSaving, testingId, sched, schedSaving, edits, channelHist>>

-----------------------------------------------------------------------------
(* Switch and test button of a row *)

toggleEnabled(c) ==
  /\ RowInReach(c) /\ ChannelRoom
  /\ channelCalls' = channelCalls \cup {ChannelCall("toggle", c, items[c].config, ~items[c].enabled)}
  /\ overlapped' = (overlapped \/ \E x \in channelCalls : x.op \in {"load", "edit"})
  /\ UNCHANGED <<channels, items, itemsLoading, channelDlg, channelSaving, testingId, sched,
                 schedSaving, edits, accepted, hidden>>

\* The row it was clicked in is switched, which rows loaded since may have
\* replaced, and not at all where the answer was lost.
Toggled(c) ==
  /\ c.op = "toggle"
  /\ DropCall(c)
  /\ \/ /\ Stores(c)
        /\ items' \in {items, [items EXCEPT ![c.channel].enabled = c.enabled]}
     \/ UNCHANGED <<channels, items>>
  /\ UNCHANGED <<itemsLoading, channelDlg, channelSaving, testingId, sched, schedSaving, edits,
                 channelHist>>

\* One row's button spins at a time, that of the last test begun.
test(c) ==
  /\ RowInReach(c) /\ testingId # c /\ ChannelRoom
  /\ testingId' = c
  /\ channelCalls' = channelCalls \cup {ChannelAsk("test", c)}
  /\ UNCHANGED <<channels, items, itemsLoading, channelDlg, channelSaving, sched, schedSaving, edits,
                 channelHist>>

Tested(c) ==
  /\ c.op = "test"
  /\ DropCall(c)
  /\ testingId' = None
  /\ UNCHANGED <<channels, items, itemsLoading, channelDlg, channelSaving, sched, schedSaving, edits,
                 channelHist>>

-----------------------------------------------------------------------------
(* The schedule *)

ScheduleCame(c) ==
  /\ c.op = "loadSchedule"
  /\ DropCall(c)
  /\ sched' \in {"loaded", sched}
  /\ UNCHANGED <<channels, items, itemsLoading, channelDlg, channelSaving, testingId, schedSaving,
                 edits, channelHist>>

\* Its button is outside what a loading schedule covers.
saveSchedule ==
  /\ channelDlg = NoChannelDlg /\ ~schedSaving /\ ChannelRoom
  /\ schedSaving' = TRUE
  /\ channelCalls' = channelCalls \cup {ChannelAsk("saveSchedule", None)}
  /\ UNCHANGED <<channels, items, itemsLoading, channelDlg, channelSaving, testingId, sched, edits,
                 channelHist>>

ScheduleSaved(c) ==
  /\ c.op = "saveSchedule"
  /\ DropCall(c)
  /\ schedSaving' = FALSE
  /\ UNCHANGED <<channels, items, itemsLoading, channelDlg, channelSaving, testingId, sched, edits,
                 channelHist>>

ChannelNext ==
  \/ CancelChannelDlg \/ remove \/ saveSchedule
  \/ \E on \in BOOLEAN : save(on)
  \/ \E c \in Channels : \/ OpenChannelDlg("edit", c) \/ OpenChannelDlg("delete", c)
                         \/ toggleEnabled(c) \/ test(c)
  \/ \E c \in channelCalls : \/ ServeRows(c) \/ RowsCame(c) \/ ChannelSaved(c) \/ Removed(c)
                             \/ Toggled(c) \/ Tested(c) \/ ScheduleCame(c) \/ ScheduleSaved(c)

ChannelSpec == ChannelInit /\ [][ChannelNext]_channelVars

-----------------------------------------------------------------------------
(* Properties *)

Rows == [config : 0..MaxEdits, enabled : BOOLEAN, gone : BOOLEAN]

\* Types of the variables.
ChannelTypeOK ==
  /\ channels \in [Channels -> Rows] /\ items \in [Channels -> Rows]
  /\ itemsLoading \in BOOLEAN /\ channelSaving \in BOOLEAN /\ schedSaving \in BOOLEAN
  /\ channelDlg \in [kind : {"none", "edit", "delete"}, channel : Channels \cup {None}]
  /\ testingId \in Channels \cup {None} /\ sched \in {"blank", "loaded"}
  /\ edits \in 0..MaxEdits
  /\ channelCalls \subseteq
       [op : {"load", "edit", "delete", "toggle", "test", "loadSchedule", "saveSchedule"},
        channel : Channels \cup {None}, config : 0..MaxEdits, enabled : BOOLEAN,
        served : BOOLEAN, snap : [Channels -> Rows]]
  /\ accepted \in [Channels -> 0..MaxEdits] /\ hidden \subseteq Channels /\ overlapped \in BOOLEAN

\* Switching a channel on or off does not undo its last edit, whose
\* configuration the rows have by then, unless an edit was in flight together
\* with a list, a switch or a deletion, or a list failed (toggleEnabled sends the
\* row's configuration). Channels are left out of which the page was told that an
\* edit had failed though the panel had stored it, until the next edit succeeds:
\* their rows are not read anew, and switching one does undo the edit.
SwitchKeepsTheEdit ==
  ~overlapped => \A c \in Channels \ hidden : channels[c].gone \/ channels[c].config = accepted[c]
=============================================================================
