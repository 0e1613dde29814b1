----------------------------- MODULE AccentTheme -----------------------------
(***************************************************************************)
(* The accent colour of the administration page (theme-provider.tsx).      *)
(* Every browser tab keeps it in a React state, writes it to localStorage  *)
(* in a layout effect, and hears of the writes of the other tabs through   *)
(* storage events.  A tab that hears of a colour renders it, and the       *)
(* effect of that render writes it back.                                   *)
(*                                                                         *)
(* A handler together with the render and the layout effects it causes is  *)
(* one step: the browser runs them in one task.  Storage events wait in a  *)
(* queue of their tab, and several of them may be rendered at once.        *)
(* The provider's MutationObserver reads back what the tab's own effect    *)
(* has just written, and changes nothing.                                  *)
(***************************************************************************)
EXTENDS Integers, Sequences

CONSTANTS
  Pages,        \* browser tabs that show the administration page
  Accents,      \* ACCENT_THEME_OPTIONS
  DefaultAccent,\* DEFAULT_ACCENT_THEME
  NoAccent,     \* no value: an empty localStorage, or a closed tab
  MaxEvents     \* events that may wait when a tab picks or opens (a bound)

ASSUME AccentAssumption ==
  /\ DefaultAccent \in Accents
  /\ NoAccent \notin Accents
  /\ MaxEvents \in Nat

VARIABLES
  storedAccent, \* localStorage[ACCENT_STORAGE_KEY]
  accent,       \* the state accentTheme of a tab (NoAccent: the tab is closed)
  storageEvents,\* storage events the tab has not rendered
  listening,    \* tabs whose storage listener is installed
  missed        \* ghost: tabs the latest change was not announced to

themeVars == <<storedAccent, accent, storageEvents, listening, missed>>

Opened == {p \in Pages : accent[p] # NoAccent}

ThemeTypeOK ==
  /\ storedAccent \in Accents \cup {NoAccent}
  /\ accent \in [Pages -> Accents \cup {NoAccent}]
  /\ storageEvents \in [Pages -> Seq(Accents)]
  /\ listening \subseteq Pages
  /\ missed \subseteq Pages

ThemeInit ==
  /\ storedAccent \in Accents \cup {NoAccent}
  /\ accent = [p \in Pages |-> NoAccent]
  /\ storageEvents = [p \in Pages |-> <<>>]
  /\ listening = {}
  /\ missed = {}

readStoredAccentTheme == IF storedAccent = NoAccent THEN DefaultAccent ELSE storedAccent

(* window.localStorage.setItem is announced when it changes the value.     *)
Announced(old, next) == IF old = next THEN <<>> ELSE <<next>>

(* Tab p ends a task that has written next last and announced news on the  *)
(* way.  The events reach the other tabs; a tab that has no listener yet   *)
(* loses them.                                                             *)
applyAccentTheme(p, queues, next, news) ==
  /\ storedAccent' = next
  /\ storageEvents' = [q \in Pages |-> IF q \in listening \ {p}
                                THEN queues[q] \o news ELSE queues[q]]
  /\ missed' = IF news = <<>> THEN missed \ {p}
               ELSE Opened \ (listening \cup {p})

EventsBounded == \A q \in Pages : Len(storageEvents[q]) <= MaxEvents

(* The provider mounts: a layout effect reads the stored colour, asks for  *)
(* it and writes it; the second one writes the colour of this first        *)
(* render, the default.  If they differ, React installs the listener       *)
(* (flushing the passive effects), renders the colour read and writes it   *)
(* in the same task; if not, the listener is installed later.              *)
Open(p) ==
  LET resolved == readStoredAccentTheme
  IN  /\ accent[p] = NoAccent
      /\ EventsBounded
      /\ accent' = [accent EXCEPT ![p] = resolved]
      /\ listening' = IF resolved = DefaultAccent THEN listening ELSE listening \cup {p}
      /\ applyAccentTheme(p, storageEvents, resolved,
            Announced(storedAccent, resolved) \o Announced(resolved, DefaultAccent)
              \o Announced(DefaultAccent, resolved))

Listen(p) ==
  /\ p \in Opened \ listening
  /\ listening' = listening \cup {p}
  /\ UNCHANGED <<storedAccent, accent, storageEvents, missed>>

(* A mutation of Receive: the colour heard of is not written back.         *)
ReceiveUnwritten(p, n) ==
  /\ p \in Opened
  /\ n \in 1 .. Len(storageEvents[p])
  /\ accent' = [accent EXCEPT ![p] = storageEvents[p][n]]
  /\ storageEvents' = [storageEvents EXCEPT ![p] = SubSeq(@, n + 1, Len(@))]
  /\ UNCHANGED <<storedAccent, listening, missed>>

(* onStorage sets the state for n waiting events, which one render shows;  *)
(* the layout effect runs only if that changes the colour.                 *)
Receive(p, n) ==
  /\ p \in Opened
  /\ n \in 1 .. Len(storageEvents[p])
  /\ LET rest == [storageEvents EXCEPT ![p] = SubSeq(@, n + 1, Len(@))]
         next == storageEvents[p][n]
     IN  IF next = accent[p]
         THEN /\ storageEvents' = rest
              /\ UNCHANGED <<storedAccent, accent, missed>>
         ELSE /\ accent' = [accent EXCEPT ![p] = next]
              /\ applyAccentTheme(p, rest, next, Announced(storedAccent, next))
  /\ UNCHANGED listening

(* setAccentTheme by a click.  The render of a click goes ahead of the one *)
(* n events have asked for, which is then rebased under the click: they    *)
(* are never shown.                                                        *)
Pick(p, next, n) ==
  /\ p \in Opened
  /\ next # accent[p]
  /\ n \in 0 .. Len(storageEvents[p])
  /\ EventsBounded
  /\ accent' = [accent EXCEPT ![p] = next]
  /\ applyAccentTheme(p, [storageEvents EXCEPT ![p] = SubSeq(@, n + 1, Len(@))], next,
                      Announced(storedAccent, next))
  /\ UNCHANGED listening

Close(p) ==
  /\ p \in Opened
  /\ accent' = [accent EXCEPT ![p] = NoAccent]
  /\ storageEvents' = [storageEvents EXCEPT ![p] = <<>>]
  /\ listening' = listening \ {p}
  /\ missed' = missed \ {p}
  /\ UNCHANGED storedAccent

ThemeNext ==
  \E p \in Pages :
    \/ Open(p)
    \/ Listen(p)
    \/ Close(p)
    \/ \E n \in 1 .. Len(storageEvents[p]) : Receive(p, n)
    \/ \E next \in Accents, n \in 0 .. Len(storageEvents[p]) : Pick(p, next, n)

ThemeSpec == ThemeInit /\ [][ThemeNext]_themeVars

----------------------------------------------------------------------------
(* A tab that shows another colour than the stored one still has the event *)
(* that tells it, last in its queue, unless the change was made before its *)
(* listener was installed.                                                 *)
LastEventTells ==
  \A p \in Opened \ missed :
    \/ accent[p] = storedAccent
    \/ storageEvents[p] # <<>> /\ storageEvents[p][Len(storageEvents[p])] = storedAccent

(* Once every tab has rendered the events it was sent, all the tabs show   *)
(* the colour that is stored, in whatever order they opened, picked and    *)
(* heard of each other; the tabs that no event could reach are excepted.   *)
TabsAgree ==
  (\A p \in Pages : storageEvents[p] = <<>>)
    => \A p \in Opened \ missed : accent[p] = storedAccent

=============================================================================
