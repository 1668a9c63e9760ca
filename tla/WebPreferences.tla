----------------------------- MODULE WebPreferences ----------------------------
(***************************************************************************)
(* Color mode and language of the web client in one tab: the head of       *)
(* index.html, the provider of the mode, the settings panel, and what      *)
(* localStorage and the operating system hold meanwhile.  Another tab may  *)
(* write the storage, of which this one is told nothing.                   *)
(*                                                                         *)
(* The surface is the background of the body: an inline style beats the    *)
(* rule of CssBaseline, which beats the rule in the head.                  *)
(***************************************************************************)
CONSTANT None                  \* no entry, no style

VARIABLES
    policy,                    \* the Content-Security-Policy of the stack: "self" or "open"
    stored,                    \* localStorage 'mikrouli.themeMode'
    locale,                    \* localStorage 'mikrouli.locale'
    storable,                  \* whether this browser lets the page use localStorage
    osDark,                    \* what the operating system prefers
    doc                        \* the document

vars == <<policy, stored, locale, storable, osDark, doc>>

THEME_MODE_VALUES == {"light", "dark", "follow-system"}
LANGUAGE_VALUES == {"en", "de", "el"}
Surfaces == {"light", "dark"}

Documents ==
    [initialBg : Surfaces \cup {None},    \* the variable the head script sets
     inlineBg : Surfaces \cup {None},     \* the body's own style
     due : Surfaces,                      \* what the cascade gives at the head
     loaded : BOOLEAN,                    \* DOMContentLoaded was dispatched
     stage : {"head", "rendered", "subscribed"},
     mode : THEME_MODE_VALUES, prefersDark : BOOLEAN, language : LANGUAGE_VALUES,
     panel : BOOLEAN,                     \* the settings panel stands open
     told : BOOLEAN,                      \* a change event is to be delivered
     unheard : BOOLEAN]                   \* the preference changed before the subscription

-------------------------------------------------------------------------------
\* An entry that is absent, unknown or out of reach falls through.
readPersistedMode == IF storable /\ stored \in THEME_MODE_VALUES THEN stored ELSE "follow-system"
detectLanguage == IF storable /\ locale \in LANGUAGE_VALUES THEN locale ELSE "en"

resolveEffectiveMode(mode, prefersDark) ==
    IF mode # "follow-system" THEN mode ELSE IF prefersDark THEN "dark" ELSE "light"

\* nginx.conf and the ConfigMap of k8s answer with script-src 'self', which runs no script
\* in the document; nginx-dev.conf answers with no policy.
InlineScripts == policy = "open"

\* The canvas of createAppTheme, which both literals of the head repeat.
Canvas(effective) == effective

Surface ==
    CASE doc.inlineBg # None                        -> doc.inlineBg
      [] doc.inlineBg = None /\ doc.stage # "head"  ->
            Canvas(resolveEffectiveMode(doc.mode, doc.prefersDark))
      [] doc.inlineBg = None /\ doc.stage = "head"
           /\ doc.initialBg # None                  -> doc.initialBg
      [] OTHER                                      -> "light"

\* The head is read: the script sets the variable, if it runs at all.
HeadRead(due) ==
    [initialBg |-> IF InlineScripts THEN due ELSE None, inlineBg |-> None, due |-> due,
     loaded |-> FALSE, stage |-> "head", mode |-> "follow-system", prefersDark |-> FALSE,
     language |-> "en", panel |-> FALSE, told |-> FALSE, unheard |-> FALSE]

Init ==
    /\ policy \in {"self", "open"}
    /\ stored \in THEME_MODE_VALUES \cup {None, "unknown"}
    /\ locale \in LANGUAGE_VALUES \cup {None, "unknown"}
    /\ storable \in BOOLEAN
    /\ osDark \in BOOLEAN
    /\ doc = HeadRead(resolveEffectiveMode(readPersistedMode, osDark))

Reload ==
    /\ doc' = HeadRead(resolveEffectiveMode(readPersistedMode, osDark))
    /\ UNCHANGED <<policy, stored, locale, storable, osDark>>

\* The script's listener gives the body a style of its own.
DOMContentLoaded ==
    /\ ~doc.loaded
    /\ doc' = [doc EXCEPT !.loaded = TRUE, !.inlineBg = doc.initialBg]
    /\ UNCHANGED <<policy, stored, locale, storable, osDark>>

\* main.tsx: i18next detects and caches the language, the provider renders.
ThemeModeProvider ==
    /\ doc.stage = "head"
    /\ doc' = [doc EXCEPT !.stage = "rendered", !.mode = readPersistedMode,
                          !.prefersDark = osDark, !.language = detectLanguage]
    /\ locale' = IF storable THEN detectLanguage ELSE locale
    /\ UNCHANGED <<policy, stored, storable, osDark>>

\* The effect subscribes after the paint; nothing is read again.
Subscribe ==
    /\ doc.stage = "rendered"
    /\ doc' = [doc EXCEPT !.stage = "subscribed"]
    /\ UNCHANGED <<policy, stored, locale, storable, osDark>>

OsChanges ==
    /\ osDark' = ~osDark
    /\ doc' = [doc EXCEPT !.told = (doc.told \/ doc.stage = "subscribed"),
                          !.unheard = (doc.unheard \/ doc.stage = "rendered")]
    /\ UNCHANGED <<policy, stored, locale, storable>>

\* after a mutant that takes every event for a switch
switched == ~doc.prefersDark

\* The event carries the preference as it now is.
matches == osDark

onChange ==
    /\ doc.told
    /\ doc' = [doc EXCEPT !.prefersDark = matches, !.told = FALSE, !.unheard = FALSE]
    /\ UNCHANGED <<policy, stored, locale, storable, osDark>>

-------------------------------------------------------------------------------
(* The settings panel stands over the place the visitor is at.             *)

TogglePanel ==
    /\ doc.stage # "head"
    /\ doc' = [doc EXCEPT !.panel = ~doc.panel]
    /\ UNCHANGED <<policy, stored, locale, storable, osDark>>

openSettings == ~doc.panel /\ TogglePanel
closeSettings == doc.panel /\ TogglePanel

\* One selection is always held: choosing it again changes nothing.
SettingChoiceGroup(held, next) == doc.panel /\ next # held

handleSelectMode(mode) ==
    /\ SettingChoiceGroup(doc.mode, mode)
    /\ doc' = [doc EXCEPT !.mode = mode]
    /\ stored' = IF storable THEN mode ELSE stored
    /\ UNCHANGED <<policy, locale, storable, osDark>>

handleSelectLanguage(language) ==
    /\ SettingChoiceGroup(doc.language, language)
    /\ doc' = [doc EXCEPT !.language = language]
    /\ locale' = IF storable THEN language ELSE locale
    /\ UNCHANGED <<policy, stored, storable, osDark>>

SettingsPanel ==
    \/ openSettings \/ closeSettings
    \/ \E mode \in THEME_MODE_VALUES : handleSelectMode(mode)
    \/ \E language \in LANGUAGE_VALUES : handleSelectLanguage(language)

\* The same panel in another tab: neither store listens to storage events.
OtherTab ==
    /\ storable
    /\ stored' \in THEME_MODE_VALUES \cup {stored}
    /\ locale' \in LANGUAGE_VALUES \cup {locale}
    /\ UNCHANGED <<policy, storable, osDark, doc>>

Next ==
    \/ Reload \/ DOMContentLoaded \/ ThemeModeProvider \/ Subscribe
    \/ OsChanges \/ onChange \/ SettingsPanel \/ OtherTab

Spec == Init /\ [][Next]_vars

-------------------------------------------------------------------------------
(* Every variable has its type. *)
TypeOK ==
    /\ policy \in {"self", "open"}
    /\ stored \in THEME_MODE_VALUES \cup {None, "unknown"}
    /\ locale \in LANGUAGE_VALUES \cup {None, "unknown"}
    /\ storable \in BOOLEAN
    /\ osDark \in BOOLEAN
    /\ doc \in Documents

(***************************************************************************)
(* What e2e/theme.spec.ts waits for: once the application runs, the body   *)
(* has the color of the mode held, a selection and a change of the system  *)
(* included. It does not where the script in the head runs, from the       *)
(* moment the document is loaded: there the body keeps, through every      *)
(* selection, the color the head gave it. Exempted is a change of the      *)
(* system that fell between the first render and the subscription.         *)
(***************************************************************************)
SurfaceObeysTheMode ==
    doc.stage = "subscribed" /\ ~doc.told /\ ~doc.unheard
    => Surface = IF InlineScripts /\ doc.loaded THEN doc.due
                 ELSE resolveEffectiveMode(doc.mode, osDark)

(***************************************************************************)
(* index.html says of the script in its head: "the very first paint is     *)
(* already in the correct visual mode".  Until the application renders,    *)
(* the body has the color that the stored mode and the system give: not    *)
(* under the policy "self".                                                *)
(***************************************************************************)
FirstPaintIsRight == doc.stage = "head" => Surface = doc.due
===============================================================================
