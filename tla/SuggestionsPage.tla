---------------------------- MODULE SuggestionsPage ----------------------------
(***************************************************************************)
(* pages/suggestions-page.tsx: suggestions are generated, read, asked      *)
(* about, accepted (which writes a configuration) or rejected, and the     *)
(* rules they come from are switched.  The list "pending" holds those that *)
(* are pending; the page shows the others too, without their buttons.      *)
(*                                                                         *)
(* Left out: what a suggestion says, and how it is drawn.                  *)
(***************************************************************************)
EXTENDS Tables

VARIABLES
    ruleSettings,  \* the project's rules on the server, one of Values
    shownRules     \* ["projects", p, "ai-rule-settings"]

ruleVars == <<ruleSettings, shownRules>>

\* run: selectedRunId, 0 is "none"; selected: selectedId; rules: the draft of the
\* dialog, {} before there is one; chatDraft: something is typed
SuggestionsUi == [run |-> 0, selected |-> 0, chat |-> FALSE, chatDraft |-> FALSE,
                  rulesOpen |-> FALSE, rules |-> {}]

NoRulesDialog == ~ui.rulesOpen
OnSuggestions == page = "suggestions" /\ activeProject # NoProject /\ NoRulesDialog

SuggestionRest == UNCHANGED <<configVars, tour, activeProject, page, cfg, saves,
                              launches, followed>>
OnlySuggestionsUi == SuggestionRest /\ UNCHANGED <<writes, tableVars, ruleVars>>
OnlyCall == SuggestionRest /\ UNCHANGED <<writes, ui, ruleVars>>

SelectSource(r) ==
    /\ OnSuggestions /\ r # ui.run /\ Step
    /\ ui' = [ui EXCEPT !.run = r] /\ OnlySuggestionsUi

\* another suggestion closes the conversation
Selecting(id) ==
    [ui EXCEPT !.selected = id,
               !.chat = @ /\ id = ui.selected, !.chatDraft = @ /\ id = ui.selected]

SelectSuggestion(id) ==
    /\ OnSuggestions /\ id # ui.selected /\ Step
    /\ ui' = Selecting(id) /\ OnlySuggestionsUi

\* handleStatusFilterChange
ClearSelection ==
    /\ OnSuggestions /\ ui.selected # 0
    /\ ui' = Selecting(0) /\ OnlySuggestionsUi /\ UNCHANGED steps

HandleGenerate ==
    /\ OnSuggestions /\ ~Busy("generate")
    /\ Send("generate", ui.run) /\ OnlyCall

(***************************************************************************)
(* SuggestionDetail.                                                       *)
(***************************************************************************)
CanAct == ui.selected \in Listed("pending")

\* every action card applies the whole suggestion; a rejection on its way does
\* not disable it
HandleAcceptClick ==
    /\ OnSuggestions /\ CanAct /\ ~IsPending(writes, {"accept"}) /\ Step
    /\ writes' = writes \cup
        {[WriteRequest("accept", "training", 2) EXCEPT !.row = ui.selected]}
    /\ SuggestionRest /\ UNCHANGED <<ui, tableVars, ruleVars>>

HandleRejectClick ==
    /\ OnSuggestions /\ CanAct /\ ~Busy("reject")
    /\ Send("reject", ui.selected) /\ OnlyCall

\* accept_suggestion asks for no status: a version, and the suggestion resolved
SuggestionAccepted(w) ==
    /\ w.by = "accept" /\ w.phase = "sent"
    /\ \/ /\ WriteSection(w.project, w.section, w.value)
          /\ writes' = Replaced(writes, w, [w EXCEPT !.phase = "ok"])
          /\ tables' = [tables EXCEPT !["pending"] = @ \ {w.row}]
          /\ told' = {n \in told : n[1] # "pending" \/ n[3] # w.row}
       \/ /\ writes' = Replaced(writes, w, [w EXCEPT !.phase = "failed"])
          /\ UNCHANGED <<configVars, tables, told>>
    /\ UNCHANGED <<tour, activeProject, page, ui, cfg, saves, launches, followed,
                   steps, lists, calls, ruleVars>>

\* useAcceptSuggestion's onSuccess: the suggestions, not the configuration
AcceptAnswered(w) ==
    /\ w.by = "accept" /\ w.phase \in {"ok", "failed"}
    /\ writes' = writes \ {w}
    /\ IF w.phase = "failed" THEN UNCHANGED <<lists, told>>
       ELSE LET shown == IF page = "suggestions" THEN {"pending"} ELSE {}
            IN  /\ lists' = InvalidatedAll(lists, {"pending"}, shown)
                /\ told' = told \cup {<<t, FALSE, w.row>> :
                        t \in {u \in shown : /\ lists[u].data # NoAnswer
                                             /\ w.row \notin tables[u]}}
    /\ SuggestionRest /\ UNCHANGED <<ui, tables, calls, ruleVars, steps>>

(***************************************************************************)
(* The conversation about the selected suggestion.                         *)
(***************************************************************************)
ToggleChat ==
    /\ OnSuggestions /\ ui.selected # 0 /\ Step
    /\ ui' = [ui EXCEPT !.chat = ~@, !.chatDraft = FALSE] /\ OnlySuggestionsUi

TypeMessage ==
    /\ OnSuggestions /\ ui.chat /\ ~ui.chatDraft /\ ~Busy("send")
    /\ ui' = [ui EXCEPT !.chatDraft = TRUE] /\ OnlySuggestionsUi /\ UNCHANGED steps

HandleSendMessage ==
    /\ OnSuggestions /\ ui.chat /\ ui.chatDraft /\ ~Busy("send")
    /\ Send("send", ui.selected) /\ OnlyCall

(***************************************************************************)
(* RuleSettingsDialog: its draft follows the settings whenever they change. *)
(***************************************************************************)
OpenRules ==
    /\ OnSuggestions /\ Step
    /\ ui' = [ui EXCEPT !.rulesOpen = TRUE, !.rules = shownRules]
    /\ OnlySuggestionsUi

ToggleRule ==
    /\ page = "suggestions" /\ ui.rulesOpen /\ ui.rules # {} /\ ~Busy("rules") /\ Step
    /\ ui' = [ui EXCEPT !.rules = {Flip(d) : d \in @}]
    /\ OnlySuggestionsUi

CloseRules ==
    /\ page = "suggestions" /\ ui.rulesOpen
    /\ ui' = [ui EXCEPT !.rulesOpen = FALSE, !.rules = {}]
    /\ OnlySuggestionsUi /\ UNCHANGED steps

HandleSaveRuleSettings ==
    /\ page = "suggestions" /\ ui.rulesOpen /\ ~Busy("rules")
    /\ \E draft \in ui.rules : Send("rules", draft)
    /\ OnlyCall

RulesFetched ==
    /\ page = "suggestions" /\ shownRules = {}
    /\ shownRules' = {ruleSettings}
    /\ ui' = IF ui.rulesOpen THEN [ui EXCEPT !.rules = {ruleSettings}] ELSE ui
    /\ SuggestionRest /\ UNCHANGED <<writes, tableVars, ruleSettings, steps>>

\* PUT .../ai-rule-settings
RulesHandled(c) ==
    /\ c.kind = "rules" /\ c.phase = "sent"
    /\ \/ /\ ruleSettings' = c.row
          /\ calls' = Replaced(calls, c, [c EXCEPT !.phase = "ok"])
       \/ /\ calls' = Replaced(calls, c, [c EXCEPT !.phase = "failed"])
          /\ UNCHANGED ruleSettings
    /\ SuggestionRest
    /\ UNCHANGED <<writes, ui, tables, lists, told, shownRules, steps>>

\* what the answers do to the page
SuggestionsUiAfter(c) ==
    CASE c.kind = "generate" -> Selecting(c.row)
      [] c.kind = "send" -> [ui EXCEPT !.chatDraft = FALSE]
      [] c.kind = "rules" -> [ui EXCEPT !.rulesOpen = FALSE, !.rules = {}]
      [] OTHER -> ui

SuggestionsShows == {"pending", "messages"}
=============================================================================
