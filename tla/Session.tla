------------------------------- MODULE Session -------------------------------
(***************************************************************************)
(* One BhopPlayer, the object of a slot, and the players who take the slot *)
(* one after another: BhopOptionService with the loading and the saving of *)
(* preferences, BhopModeManager and BhopStyleManager with the plugins that *)
(* come and go, the rating BhopProfileService shows, and the answers of    *)
(* the database and of the API, which come whenever they like: before the  *)
(* player is in the game, after he has chosen for himself, or when he has  *)
(* left and somebody else has the slot.                                    *)
(*                                                                          *)
(* The functions that call one another are operators on the record pl.     *)
(***************************************************************************)
EXTENDS Naturals, SequencesExt

CONSTANTS
  Players, NoUser,
  Modes, DefaultMode,      \* DefaultMode is built in
  ApiModes,                \* the modes Bhop::API::DecodeModeString knows
  StyleOrder,              \* the styles as styleInfos lists them
  Conflicts,               \* style -> the incompatible styles its plugin passes to Load's RegisterStyle
  DefaultStyles,           \* "defaultStyles" of the server's configuration
  Rows, ApiPrefs,          \* the preferences the database and the API have at first
  Unset,
  MaxJoins, MaxEvents      \* bounds: connections; commands, failures and plugins unloaded

Styles == ToSet(StyleOrder)
Keys   == {"preferredMode", "preferredStyles"}
Prefs  == [preferredMode : Modes \cup {Unset},
           preferredStyles : {Unset} \cup BoundedSeq(Styles, Len(StyleOrder))]

ASSUME SessionAssumption ==
  /\ DefaultMode \in Modes /\ ApiModes \subseteq Modes /\ Unset \notin Modes
  /\ Modes \cap Styles = {} /\ DefaultStyles \in Seq(Styles)
  /\ Conflicts \in [Styles -> SUBSET Styles]
  /\ \A s, t \in Styles : s \in Conflicts[t] => t \in Conflicts[s]
  /\ Rows \in [Players -> Prefs] /\ ApiPrefs \in [Players -> Prefs]
  /\ MaxJoins \in Nat /\ MaxEvents \in Nat

VARIABLES
  user, authed, ingame,    \* who has the slot, and how far his connection is
  pl,                      \* the services of the slot
  isSetUp,                 \* BhopDatabaseService::isSetUp of the slot
  loaded, listed,          \* the plugins whose factory is set; style -> info.incompatibleStyles
  dbReady, jobs, rows,     \* the database: ready, its queue of transactions, players.Preferences
  online, acks, api,       \* the API: available, the joins it has not answered, the preferences it keeps
  hist                     \* what the player chose, and what the exceptions of the properties look at

vars == <<user, authed, ingame, pl, isSetUp, loaded, listed, dbReady, jobs, rows, online, acks, api, hist>>
connVars == <<user, authed, ingame>>
dbVars   == <<dbReady, jobs, rows>>
apiVars  == <<online, acks, api>>

(* dataState *)
NoData == 0
LocalData == 1
GlobalData == 2
NoPrefs == [k \in Keys |-> Unset]

------------------------------------------------------------------------------
(* Preferences.                                                             *)
SetPreference(p, k, value) == [p EXCEPT !.prefs[k] = value, !.userSet = @ \cup {k}]

MergePreferences_Overwrite(p, source) ==   \* mutant: excludeKeys is forgotten
  [p EXCEPT !.prefs = [k \in Keys |-> IF source[k] # Unset THEN source[k] ELSE @[k]]]
MergePreferences(p, source) ==
  [p EXCEPT !.prefs = [k \in Keys |-> IF source[k] # Unset /\ k \notin p.userSet THEN source[k] ELSE @[k]]]

Preference(p, k, default) == IF p.prefs[k] = Unset THEN default ELSE p.prefs[k]

------------------------------------------------------------------------------
(* Modes, styles and the rating.                                            *)
CanRequest(p) == online /\ authed /\ p.mode \in ApiModes
RequestRating(p) ==
  IF ~CanRequest(p) THEN p
  ELSE [p EXCEPT !.desiredMode = p.mode,
                 !.asked = @ \cup (IF p.styles = <<>> THEN {[player |-> user.player, mode |-> p.mode]} ELSE {})]

\* undecided: the mode was switched by a call that did not set desiredMode.
ResetRating_Kept(p) == RequestRating([p EXCEPT !.undecided = ~CanRequest(p)])    \* mutant: the old rating is kept
ResetRating(p) == RequestRating([p EXCEPT !.currentRating = Unset, !.undecided = ~CanRequest(p)])

SwitchToMode(p, m, force, updatePreference) ==
  IF (~force /\ p.mode = m) \/ m \notin loaded THEN p
  ELSE LET switched == ResetRating([p EXCEPT !.mode = m, !.timerRunning = FALSE])
       IN IF updatePreference THEN SetPreference(switched, "preferredMode", m) ELSE switched

UpdateStyles(p, updatePreference) ==
  IF updatePreference THEN SetPreference(p, "preferredStyles", p.styles) ELSE p

Conflicting_Never(p, s) == FALSE           \* mutant: conflicts are not looked at
Conflicting(p, s) == listed[s] \cap ToSet(p.styles) # {}

AddStyle(p, s, updatePreference) ==
  IF s \in ToSet(p.styles) \/ s \notin loaded \/ Conflicting(p, s) THEN p
  ELSE UpdateStyles([p EXCEPT !.styles = Append(@, s), !.timerRunning = FALSE], updatePreference)

RemoveStyle(p, s, updatePreference) ==
  IF s \in ToSet(p.styles) THEN UpdateStyles([p EXCEPT !.styles = RemoveFirst(@, s)], updatePreference) ELSE p

ToggleStyle(p, s) == IF s \in ToSet(p.styles) THEN RemoveStyle(p, s, TRUE) ELSE AddStyle(p, s, TRUE)

ClearStyles(p, updatePreference) == UpdateStyles([p EXCEPT !.styles = <<>>], updatePreference)

AddStyles(p, list, updatePreference) == FoldLeft(LAMBDA q, s : AddStyle(q, s, updatePreference), p, list)

RefreshStyles(p) == AddStyles(ClearStyles(p, FALSE), p.styles, FALSE)

\* The two listeners of OnPlayerPreferencesLoaded, in the order they register.
MayApply(p) == p.early /\ ~p.timerRunning
ModesLoaded(p) ==
  IF MayApply(p) THEN SwitchToMode(p, Preference(p, "preferredMode", DefaultMode), FALSE, TRUE) ELSE p
StylesLoaded(p) ==
  IF MayApply(p)
  THEN AddStyles(ClearStyles(p, FALSE), Preference(p, "preferredStyles", DefaultStyles), TRUE)
  ELSE p
OnPlayerPreferencesLoaded(p) == StylesLoaded(ModesLoaded(p))

Apply(p) == [OnPlayerPreferencesLoaded(p) EXCEPT !.currentState = p.dataState]

InitializeLocalPrefs(p, text) ==
  IF p.dataState > LocalData THEN p
  ELSE LET merged == [MergePreferences(p, text) EXCEPT !.dataState = LocalData]
       IN IF ingame THEN Apply(merged) ELSE merged

InitializeGlobalPrefs(p, json) ==
  LET merged == [MergePreferences(p, json) EXCEPT !.dataState = GlobalData]
  IN IF ingame THEN Apply(merged) ELSE merged

OptionsActive(p) == IF p.currentState <= p.dataState THEN Apply(p) ELSE p

------------------------------------------------------------------------------
NothingChosen == NoPrefs
NewHistory == [chosen |-> NothingChosen, unplugged |-> FALSE, relisted |-> FALSE,
               joins |-> 0, events |-> 0]

NewServices ==
  [mode |-> DefaultMode, styles |-> <<>>, timerRunning |-> FALSE, early |-> TRUE,
   prefs |-> NoPrefs, userSet |-> {}, dataState |-> NoData, currentState |-> NoData,
   currentRating |-> Unset, desiredMode |-> Unset, undecided |-> FALSE, asked |-> {}]

Init ==
  /\ user = NoUser /\ authed = FALSE /\ ingame = FALSE
  /\ pl = NewServices /\ isSetUp = FALSE
  /\ loaded = Modes \cup Styles /\ listed = Conflicts
  /\ dbReady \in BOOLEAN /\ jobs = <<>> /\ rows = Rows
  /\ online \in BOOLEAN /\ acks = {} /\ api = ApiPrefs
  /\ hist = NewHistory

------------------------------------------------------------------------------
(* The connection.                                                          *)
Connect(p) ==
  /\ user = NoUser /\ hist.joins < MaxJoins
  /\ user' = [player |-> p, id |-> hist.joins + 1]
  /\ hist' = [hist EXCEPT !.joins = @ + 1]
  /\ UNCHANGED <<authed, ingame, pl, isSetUp, loaded, listed, dbVars, apiVars>>

SetupClient == IF dbReady THEN Append(jobs, [kind |-> "setup", user |-> user, prefs |-> NoPrefs]) ELSE jobs

OnAuthorized ==
  /\ user # NoUser /\ ~authed
  /\ authed' = TRUE
  /\ jobs' = SetupClient
  /\ acks' = IF online THEN acks \cup {user.player} ELSE acks
  /\ UNCHANGED <<user, ingame, pl, isSetUp, loaded, listed, dbReady, rows, online, api, hist>>

OnPlayerActive ==
  /\ user # NoUser /\ ~ingame
  /\ ingame' = TRUE
  /\ pl' = OptionsActive(RefreshStyles(SwitchToMode(pl, pl.mode, TRUE, FALSE)))
  /\ UNCHANGED <<user, authed, isSetUp, loaded, listed, dbVars, apiVars, hist>>

\* SaveLocalPrefs, then the player-leave event, then Reset.
SavePrefs ==
  IF authed /\ dbReady /\ isSetUp THEN Append(jobs, [kind |-> "save", user |-> user, prefs |-> pl.prefs]) ELSE jobs

Reset(p) ==
  LET forgotten == [p EXCEPT !.prefs = NoPrefs, !.userSet = {}, !.dataState = NoData, !.currentState = NoData,
                             !.timerRunning = FALSE, !.early = TRUE]
  IN AddStyles(ClearStyles(SwitchToMode(forgotten, DefaultMode, TRUE, FALSE), FALSE), DefaultStyles, TRUE)

ClientDisconnect ==
  /\ user # NoUser
  /\ user' = NoUser /\ authed' = FALSE /\ ingame' = FALSE
  /\ jobs' = SavePrefs
  /\ api' = IF authed /\ online THEN [api EXCEPT ![user.player] = pl.prefs] ELSE api
  /\ pl' = Reset(pl)
  /\ hist' = [hist EXCEPT !.chosen = NothingChosen]
  /\ UNCHANGED <<isSetUp, loaded, listed, dbReady, rows, online, acks>>

------------------------------------------------------------------------------
(* What the player does.                                                    *)
Choice(p) ==
  [k \in Keys |-> IF k \in p.userSet /\ p.prefs[k] # pl.prefs[k] THEN p.prefs[k] ELSE hist.chosen[k]]

Command ==
  /\ ingame /\ hist.events < MaxEvents
  /\ \E p \in {SwitchToMode(pl, m, FALSE, TRUE) : m \in Modes}
              \cup {AddStyle(pl, s, TRUE) : s \in Styles}
              \cup {RemoveStyle(pl, s, TRUE) : s \in Styles}
              \cup {ToggleStyle(pl, s) : s \in Styles}
              \cup {ClearStyles(pl, TRUE)} :
       /\ p # pl
       /\ pl' = p
       /\ hist' = [hist EXCEPT !.chosen = Choice(p), !.events = @ + 1]
  /\ UNCHANGED <<connVars, isSetUp, loaded, listed, dbVars, apiVars>>

\* The first run starts, or the first thirty seconds are over.
TimerStart ==
  /\ ingame /\ ~pl.timerRunning
  /\ pl' = [pl EXCEPT !.timerRunning = TRUE]
  /\ UNCHANGED <<connVars, isSetUp, loaded, listed, dbVars, apiVars, hist>>

ActiveCheck ==
  /\ ingame /\ pl.early
  /\ pl' = [pl EXCEPT !.early = FALSE]
  /\ UNCHANGED <<connVars, isSetUp, loaded, listed, dbVars, apiVars, hist>>

\* OnPhysicsSimulatePost of the profile service: every other minute, and first when authorized.
RefreshRating ==
  /\ ingame /\ RequestRating(pl) # pl
  /\ pl' = RequestRating(pl)
  /\ UNCHANGED <<connVars, isSetUp, loaded, listed, dbVars, apiVars, hist>>

------------------------------------------------------------------------------
(* Answers.                                                                 *)
ClientSetup ==
  /\ jobs # <<>> /\ Head(jobs).kind = "setup"
  /\ LET u == Head(jobs).user
     IN IF u = user /\ authed
        THEN /\ isSetUp' = TRUE
             /\ pl' = InitializeLocalPrefs(pl, rows[u.player])
        ELSE UNCHANGED <<isSetUp, pl>>
  /\ jobs' = Tail(jobs)
  /\ UNCHANGED <<connVars, loaded, listed, dbReady, rows, apiVars, hist>>

PrefsSaved ==
  /\ jobs # <<>> /\ Head(jobs).kind = "save"
  /\ rows' = [rows EXCEPT ![Head(jobs).user.player] = Head(jobs).prefs]
  /\ jobs' = Tail(jobs)
  /\ UNCHANGED <<connVars, pl, isSetUp, loaded, listed, dbReady, apiVars, hist>>

OnGenericTxnFailure ==
  /\ jobs # <<>> /\ hist.events < MaxEvents
  /\ jobs' = Tail(jobs)
  /\ hist' = [hist EXCEPT !.events = @ + 1]
  /\ UNCHANGED <<connVars, pl, isSetUp, loaded, listed, dbReady, rows, apiVars>>

DatabaseReady ==
  /\ ~dbReady
  /\ dbReady' = TRUE
  /\ UNCHANGED <<connVars, pl, isSetUp, loaded, listed, jobs, rows, apiVars, hist>>

\* PlayerJoinAck finds its player by SteamID.
PlayerJoinAck(p) ==
  /\ p \in acks
  /\ acks' = acks \ {p}
  /\ pl' = IF authed /\ user.player = p THEN InitializeGlobalPrefs(pl, api[p]) ELSE pl
  /\ UNCHANGED <<connVars, isSetUp, loaded, listed, dbVars, online, api, hist>>

\* The connection opens, and the hello's acknowledgement covers those who play; or it closes.
Connection ==
  /\ online' = ~online
  /\ hist.events < MaxEvents
  /\ hist' = [hist EXCEPT !.events = @ + 1]
  /\ UNCHANGED <<connVars, pl, isSetUp, loaded, listed, dbVars, acks, api>>

RatingOf(r) == authed /\ user.player = r.player /\ pl.desiredMode = r.mode
RatingAnswered(r) ==
  /\ r \in pl.asked
  /\ pl' = [pl EXCEPT !.asked = @ \ {r}, !.currentRating = IF RatingOf(r) THEN r ELSE @]
  /\ UNCHANGED <<connVars, isSetUp, loaded, listed, dbVars, apiVars, hist>>

------------------------------------------------------------------------------
(* Plugins.                                                                 *)
\* UnregisterStyle: the loop over the player's styles reuses the name i, so it compares his i-th
\* style with the i-th style listed, and removes it, whatever style is leaving.
Misplaced == {i \in 1..Len(pl.styles) : pl.styles[i] = StyleOrder[i]}
UnregisterStyle(s) ==
  /\ s \in loaded /\ hist.events < MaxEvents
  /\ pl' = IF Misplaced = {} THEN pl
           ELSE RemoveStyle(pl, StyleOrder[CHOOSE i \in Misplaced : \A j \in Misplaced : i <= j], TRUE)
  /\ loaded' = loaded \ {s}
  /\ listed' = [listed EXCEPT ![s] = {}]
  /\ hist' = [hist EXCEPT !.events = @ + 1, !.unplugged = TRUE]
  /\ UNCHANGED <<connVars, isSetUp, dbVars, apiVars>>

\* Load passes the list of conflicts, Unpause does not.
RegisterStyle(s) ==
  /\ s \notin loaded
  /\ loaded' = loaded \cup {s}
  /\ listed' \in {[listed EXCEPT ![s] = Conflicts[s]], listed}
  /\ hist' = [hist EXCEPT !.relisted = @ \/ listed'[s] # Conflicts[s]]
  /\ UNCHANGED <<connVars, pl, isSetUp, dbVars, apiVars>>

\* UnregisterMode compares with modeInfos[slot], an entry past the end for most slots.
UnregisterMode(m) ==
  /\ m \in loaded \ {DefaultMode} /\ hist.events < MaxEvents
  /\ pl' \in {pl} \cup (IF ingame THEN {SwitchToMode(pl, DefaultMode, FALSE, TRUE)} ELSE {})
  /\ loaded' = loaded \ {m}
  /\ hist' = [hist EXCEPT !.events = @ + 1, !.unplugged = TRUE]
  /\ UNCHANGED <<connVars, isSetUp, listed, dbVars, apiVars>>

RegisterMode(m) ==
  /\ m \notin loaded
  /\ loaded' = loaded \cup {m}
  /\ UNCHANGED <<connVars, pl, isSetUp, listed, dbVars, apiVars, hist>>

Next ==
  \/ \E p \in Players : Connect(p) \/ PlayerJoinAck(p)
  \/ OnAuthorized \/ OnPlayerActive \/ ClientDisconnect
  \/ Command \/ TimerStart \/ ActiveCheck \/ RefreshRating
  \/ ClientSetup \/ PrefsSaved \/ OnGenericTxnFailure \/ DatabaseReady \/ Connection
  \/ \E r \in pl.asked : RatingAnswered(r)
  \/ \E s \in Styles : UnregisterStyle(s) \/ RegisterStyle(s)
  \/ \E m \in Modes : UnregisterMode(m) \/ RegisterMode(m)

Spec == Init /\ [][Next]_vars

------------------------------------------------------------------------------
Ratings == [player : Players, mode : ApiModes]
TypeOK ==
  /\ user \in [player : Players, id : 1..MaxJoins] \cup {NoUser}
  /\ authed \in BOOLEAN /\ ingame \in BOOLEAN /\ isSetUp \in BOOLEAN
  /\ user = NoUser => ~authed /\ ~ingame
  /\ pl.mode \in Modes /\ pl.styles \in BoundedSeq(Styles, Len(StyleOrder)) /\ IsInjective(pl.styles)
  /\ pl.prefs \in Prefs /\ pl.userSet \subseteq Keys
  /\ pl.dataState \in NoData..GlobalData /\ pl.currentState \in NoData..pl.dataState
  /\ pl.currentRating \in Ratings \cup {Unset} /\ pl.asked \subseteq Ratings
  /\ rows \in [Players -> Prefs] /\ api \in [Players -> Prefs]

\* What the player chose by a command stays chosen: no answer of the database or the API that
\* comes later switches his mode or his styles or overwrites the preference, until he leaves.
\* Not if a plugin was unloaded, as that may take the mode or a style away.
ChoiceKept ==
  ~hist.unplugged =>
    /\ \A k \in Keys : hist.chosen[k] # Unset => pl.prefs[k] = hist.chosen[k]
    /\ hist.chosen.preferredMode # Unset => pl.mode = hist.chosen.preferredMode
    /\ hist.chosen.preferredStyles # Unset => pl.styles = hist.chosen.preferredStyles

\* No two active styles conflict, in whatever order they were added, loaded or refreshed,
\* as long as no plugin was registered again without its list of conflicts.
NoConflicts ==
  ~hist.relisted =>
    \A s, t \in ToSet(pl.styles) : s # t => s \notin Conflicts[t]

\* The rating shown is that of the player in the slot, in the mode he plays; unless the mode was
\* switched while no rating could be asked for, which leaves desiredMode behind.
RatingOfMode ==
  (pl.currentRating # Unset /\ pl.styles = <<>> /\ pl.mode \in ApiModes /\ user # NoUser) =>
    /\ pl.currentRating.player = user.player
    /\ pl.currentRating.mode = pl.mode \/ pl.undecided
==============================================================================
