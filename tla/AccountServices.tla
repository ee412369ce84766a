------------------------- MODULE AccountServices --------------------------
(***************************************************************************)
(* The services between the program and its owner: the tokens of           *)
(* SmartThings, the logins of the wrapper, its reads and what they cost,   *)
(* the device objects of the library, the alerts, the home that prices are *)
(* fetched for, the settings, and the reset that an operator runs. A       *)
(* behaviour is one of them, which "account" names; they share no state in *)
(* the code that their modules do not hold themselves, so they are put     *)
(* side by side without being interleaved, and the variables of the others *)
(* are "absent".                                                           *)
(***************************************************************************)
EXTENDS Integers, FiniteSets

CONSTANTS
  tokens_Callers, tokens_MaxGrants, tokens_MaxFaults, tokens_NoRow,
  logins_Processes, logins_Threshold, logins_MaxRestarts, logins_MaxOutages,
  device_Tasks, device_Accounts, device_Local, device_NoAccount,
  quota_Capacity, quota_Cost, quota_ManualKeep, quota_TTL, quota_Horizon,
  object_Objects, object_Bare, object_Zones, object_Choices, object_Lowest,
  object_Highest, object_Shift, object_None, object_MaxTurns,
  alerts_StaleAfter, alerts_DeviceAfter, alerts_Persistent, alerts_MaxTurns,
  alerts_Throttle, alerts_Horizon, alerts_Never, prices_Polls, prices_Homes,
  prices_Areas, prices_Digests, prices_Currencies, prices_Unset,
  prices_MaxChoices, settings_Writers, settings_Offsets, settings_Providers,
  settings_MaxWrites, settings_Free, reset_Runs, reset_Operations,
  reset_MaxDrift, reset_MaxFaults, reset_Nothing, reset_Torn

VARIABLE account  \* the service that acts, or "none"
VARIABLES tokens_row, tokens_granted, tokens_dead, tokens_exchanged,
          tokens_lost, tokens_caller, tokens_consent, tokens_faults
VARIABLES logins_login, logins_memory, logins_shared, logins_redisUp,
          logins_outages, logins_restarts, logins_failed, logins_uncounted
VARIABLES device_setting, device_account, device_authenticated,
          device_redisUp, device_device, device_age, device_backoff,
          device_task
VARIABLES quota_now, quota_key, quota_spent
VARIABLES object_pump, object_cloud, object_seen, object_call, object_chosen,
          object_muddled, object_turns
VARIABLES alerts_ticks, alerts_beat, alerts_watchdog, alerts_status,
          alerts_adapter, alerts_stuck, alerts_gate, alerts_turns,
          alerts_delivery, alerts_stored, alerts_received, alerts_pinged
VARIABLES prices_digest, prices_active, prices_home, prices_diagnostic,
          prices_choices, prices_registry, prices_prices, prices_poll
VARIABLES settings_stored, settings_generation, settings_weather,
          settings_owed, settings_acting, settings_lock, settings_shared,
          settings_writer, settings_cycle, settings_writes
VARIABLES reset_target, reset_epoch, reset_history, reset_audit,
          reset_manifests, reset_file, reset_run, reset_working,
          reset_troubles

tokensVars ==
  <<tokens_row, tokens_granted, tokens_dead, tokens_exchanged, tokens_lost,
    tokens_caller, tokens_consent, tokens_faults>>
Tokens == INSTANCE SmartThingsTokens WITH
  row <- tokens_row, granted <- tokens_granted, dead <- tokens_dead,
  exchanged <- tokens_exchanged, lost <- tokens_lost, caller <- tokens_caller,
  consent <- tokens_consent, faults <- tokens_faults,
  Callers <- tokens_Callers, MaxGrants <- tokens_MaxGrants,
  MaxFaults <- tokens_MaxFaults, NoRow <- tokens_NoRow

ASSUME TokensAssumption ==
  tokens_MaxGrants \in Nat /\ tokens_NoRow \notin Nat /\ tokens_NoRow \notin Tokens!Rows

loginsVars ==
  <<logins_login, logins_memory, logins_shared, logins_redisUp,
    logins_outages, logins_restarts, logins_failed, logins_uncounted>>
Logins == INSTANCE LoginBreaker WITH
  login <- logins_login, memory <- logins_memory, shared <- logins_shared,
  redisUp <- logins_redisUp, outages <- logins_outages,
  restarts <- logins_restarts, failed <- logins_failed,
  uncounted <- logins_uncounted, Processes <- logins_Processes,
  Threshold <- logins_Threshold, MaxRestarts <- logins_MaxRestarts,
  MaxOutages <- logins_MaxOutages

ASSUME LoginsAssumption ==
  /\ IsFiniteSet(logins_Processes)
  /\ logins_Threshold \in Nat /\ logins_Threshold >= 1
  /\ logins_MaxRestarts \in Nat /\ logins_MaxOutages \in Nat

deviceVars ==
  <<device_setting, device_account, device_authenticated, device_redisUp,
    device_device, device_age, device_backoff, device_task>>
Device == INSTANCE DeviceAccess WITH
  setting <- device_setting, account <- device_account,
  authenticated <- device_authenticated, redisUp <- device_redisUp,
  device <- device_device, age <- device_age, backoff <- device_backoff,
  task <- device_task, Tasks <- device_Tasks, Accounts <- device_Accounts,
  Local <- device_Local, NoAccount <- device_NoAccount

ASSUME DeviceAssumption ==
  device_NoAccount \notin device_Accounts /\ device_Local \notin device_Accounts

quotaVars ==
  <<quota_now, quota_key, quota_spent>>
Quota == INSTANCE ReadQuota WITH
  now <- quota_now, key <- quota_key, spent <- quota_spent,
  Capacity <- quota_Capacity, Cost <- quota_Cost,
  ManualKeep <- quota_ManualKeep, TTL <- quota_TTL, Horizon <- quota_Horizon

\* The key lives at least as long as the bucket takes to fill.
ASSUME QuotaAssumption ==
  /\ quota_Capacity \in Nat /\ quota_Cost \in Nat /\ quota_ManualKeep \in Nat
  /\ quota_TTL \in Nat /\ quota_Capacity <= quota_TTL
  /\ quota_Horizon \in Nat /\ quota_Horizon >= 1

objectVars ==
  <<object_pump, object_cloud, object_seen, object_call, object_chosen,
    object_muddled, object_turns>>
Object == INSTANCE DeviceObject WITH
  pump <- object_pump, cloud <- object_cloud, seen <- object_seen,
  call <- object_call, chosen <- object_chosen, muddled <- object_muddled,
  turns <- object_turns, Objects <- object_Objects, Bare <- object_Bare,
  Zones <- object_Zones, Choices <- object_Choices, Lowest <- object_Lowest,
  Highest <- object_Highest, Shift <- object_Shift, None <- object_None,
  MaxTurns <- object_MaxTurns

ASSUME ObjectAssumption ==
  /\ object_Choices \subseteq Int /\ object_Lowest \in Int /\ object_Highest \in Int
  /\ object_Shift \in [{"eco", "comfort"} -> Int]
  /\ object_MaxTurns \in Nat

alertsVars ==
  <<alerts_ticks, alerts_beat, alerts_watchdog, alerts_status, alerts_adapter,
    alerts_stuck, alerts_gate, alerts_turns, alerts_delivery, alerts_stored,
    alerts_received, alerts_pinged>>
Alerting == INSTANCE Alerts WITH
  ticks <- alerts_ticks, beat <- alerts_beat, watchdog <- alerts_watchdog,
  status <- alerts_status, adapter <- alerts_adapter, stuck <- alerts_stuck,
  gate <- alerts_gate, turns <- alerts_turns, delivery <- alerts_delivery,
  stored <- alerts_stored, received <- alerts_received,
  pinged <- alerts_pinged, StaleAfter <- alerts_StaleAfter,
  DeviceAfter <- alerts_DeviceAfter, Persistent <- alerts_Persistent,
  MaxTurns <- alerts_MaxTurns, Throttle <- alerts_Throttle,
  Horizon <- alerts_Horizon, Never <- alerts_Never

ASSUME AlertsAssumption ==
  /\ alerts_StaleAfter \in Nat /\ alerts_DeviceAfter \in Nat /\ alerts_Throttle \in Nat
  /\ alerts_Never \notin [payload : Alerting!Message, at : Nat]

pricesVars ==
  <<prices_digest, prices_active, prices_home, prices_diagnostic,
    prices_choices, prices_registry, prices_prices, prices_poll>>
Pricing == INSTANCE PriceBinding WITH
  digest <- prices_digest, active <- prices_active, home <- prices_home,
  diagnostic <- prices_diagnostic, choices <- prices_choices,
  registry <- prices_registry, prices <- prices_prices, poll <- prices_poll,
  Polls <- prices_Polls, Homes <- prices_Homes, Areas <- prices_Areas,
  Digests <- prices_Digests, Currencies <- prices_Currencies,
  Unset <- prices_Unset, MaxChoices <- prices_MaxChoices

\* No home, scope or currency is the absence of one.
ASSUME PricesAssumption ==
  /\ prices_Digests \subseteq [prices_Homes -> prices_Areas]
  /\ prices_Unset \notin prices_Homes /\ prices_Unset \notin Pricing!ScopeOfHome
  /\ prices_Unset \notin prices_Currencies

settingsVars ==
  <<settings_stored, settings_generation, settings_weather, settings_owed,
    settings_acting, settings_lock, settings_shared, settings_writer,
    settings_cycle, settings_writes>>
Settings == INSTANCE SettingsStore WITH
  stored <- settings_stored, generation <- settings_generation,
  weather <- settings_weather, owed <- settings_owed,
  acting <- settings_acting, lock <- settings_lock, shared <- settings_shared,
  writer <- settings_writer, cycle <- settings_cycle,
  writes <- settings_writes, Writers <- settings_Writers,
  Offsets <- settings_Offsets, Providers <- settings_Providers,
  MaxWrites <- settings_MaxWrites, Free <- settings_Free

\* A lock is free, a request's or the seasonal transition's.
ASSUME SettingsAssumption ==
  /\ settings_Offsets \subseteq Nat /\ settings_Providers # {}
  /\ "seasonal" \notin settings_Writers
  /\ settings_Free \notin settings_Writers \cup {"seasonal"}

resetVars ==
  <<reset_target, reset_epoch, reset_history, reset_audit, reset_manifests,
    reset_file, reset_run, reset_working, reset_troubles>>
Reset == INSTANCE OperatorReset WITH
  target <- reset_target, epoch <- reset_epoch, history <- reset_history,
  audit <- reset_audit, manifests <- reset_manifests, file <- reset_file,
  run <- reset_run, working <- reset_working, troubles <- reset_troubles,
  Runs <- reset_Runs, Operations <- reset_Operations,
  MaxDrift <- reset_MaxDrift, MaxFaults <- reset_MaxFaults,
  Nothing <- reset_Nothing, Torn <- reset_Torn

ASSUME ResetAssumption ==
  /\ reset_MaxDrift \in Nat /\ reset_MaxFaults \in Nat
  /\ reset_Nothing \notin Reset!Manifests /\ reset_Torn \notin Reset!Manifests

accountVars == <<account,
                 tokensVars, loginsVars, deviceVars, quotaVars, objectVars,
                 alertsVars, pricesVars, settingsVars, resetVars>>

AccountSubjects == {"none", "tokens", "logins", "device", "quota", "object",
             "alerts", "prices", "settings", "reset"}

AccountInit ==
  /\ account \in AccountSubjects
  /\ IF account = "tokens" THEN Tokens!Init
     ELSE tokens_row = "absent" /\ tokens_granted = "absent" /\
          tokens_dead = "absent" /\ tokens_exchanged = "absent" /\
          tokens_lost = "absent" /\ tokens_caller = "absent" /\
          tokens_consent = "absent" /\ tokens_faults = "absent"
  /\ IF account = "logins" THEN Logins!Init
     ELSE logins_login = "absent" /\ logins_memory = "absent" /\
          logins_shared = "absent" /\ logins_redisUp = "absent" /\
          logins_outages = "absent" /\ logins_restarts = "absent" /\
          logins_failed = "absent" /\ logins_uncounted = "absent"
  /\ IF account = "device" THEN Device!Init
     ELSE device_setting = "absent" /\ device_account = "absent" /\
          device_authenticated = "absent" /\ device_redisUp = "absent" /\
          device_device = "absent" /\ device_age = "absent" /\
          device_backoff = "absent" /\ device_task = "absent"
  /\ IF account = "quota" THEN Quota!Init
     ELSE quota_now = "absent" /\ quota_key = "absent" /\ quota_spent = "absent"
  /\ IF account = "object" THEN Object!Init
     ELSE object_pump = "absent" /\ object_cloud = "absent" /\
          object_seen = "absent" /\ object_call = "absent" /\
          object_chosen = "absent" /\ object_muddled = "absent" /\
          object_turns = "absent"
  /\ IF account = "alerts" THEN Alerting!Init
     ELSE alerts_ticks = "absent" /\ alerts_beat = "absent" /\
          alerts_watchdog = "absent" /\ alerts_status = "absent" /\
          alerts_adapter = "absent" /\ alerts_stuck = "absent" /\
          alerts_gate = "absent" /\ alerts_turns = "absent" /\
          alerts_delivery = "absent" /\ alerts_stored = "absent" /\
          alerts_received = "absent" /\ alerts_pinged = "absent"
  /\ IF account = "prices" THEN Pricing!Init
     ELSE prices_digest = "absent" /\ prices_active = "absent" /\
          prices_home = "absent" /\ prices_diagnostic = "absent" /\
          prices_choices = "absent" /\ prices_registry = "absent" /\
          prices_prices = "absent" /\ prices_poll = "absent"
  /\ IF account = "settings" THEN Settings!Init
     ELSE settings_stored = "absent" /\ settings_generation = "absent" /\
          settings_weather = "absent" /\ settings_owed = "absent" /\
          settings_acting = "absent" /\ settings_lock = "absent" /\
          settings_shared = "absent" /\ settings_writer = "absent" /\
          settings_cycle = "absent" /\ settings_writes = "absent"
  /\ IF account = "reset" THEN Reset!Init
     ELSE reset_target = "absent" /\ reset_epoch = "absent" /\
          reset_history = "absent" /\ reset_audit = "absent" /\
          reset_manifests = "absent" /\ reset_file = "absent" /\
          reset_run = "absent" /\ reset_working = "absent" /\
          reset_troubles = "absent"

AccountNext ==
  /\ UNCHANGED account
  /\ IF account = "tokens" THEN Tokens!Next ELSE UNCHANGED tokensVars
  /\ IF account = "logins" THEN Logins!Next ELSE UNCHANGED loginsVars
  /\ IF account = "device" THEN Device!Next ELSE UNCHANGED deviceVars
  /\ IF account = "quota" THEN Quota!Next ELSE UNCHANGED quotaVars
  /\ IF account = "object" THEN Object!Next ELSE UNCHANGED objectVars
  /\ IF account = "alerts" THEN Alerting!Next ELSE UNCHANGED alertsVars
  /\ IF account = "prices" THEN Pricing!Next ELSE UNCHANGED pricesVars
  /\ IF account = "settings" THEN Settings!Next ELSE UNCHANGED settingsVars
  /\ IF account = "reset" THEN Reset!Next ELSE UNCHANGED resetVars

AccountSpec == AccountInit /\ [][AccountNext]_accountVars

-----------------------------------------------------------------------------
(***************************************************************************)
(* No task presents a refresh token that SmartThings has exchanged, except *)
(* one whose successor was lost with a crash (smartthings_oauth.py). The   *)
(* rest is in SmartThingsTokens.                                           *)
(***************************************************************************)
CredentialsAreUnspent ==
  account = "tokens" => Tokens!PresentsUnspent

(***************************************************************************)
(* The Panasonic account is asked no more than the code means to: logins   *)
(* that fail in a row stay within the breakers of the processes            *)
(* (aquarea.py, resilience.py), a read goes to the account that paid for   *)
(* it, what is spent was in the shared bucket, and a command of the        *)
(* library sends back what it was not asked to change, without letting the *)
(* set points drift (entities.py). One conjunct per module.                *)
(***************************************************************************)
RemoteAccountIsProtected ==
  /\ account = "logins" => Logins!LoginsAreBounded
  /\ account = "device" => Device!ReadsArePaid
  /\ account = "quota" => Quota!SpendingIsBounded
  /\ account = "object" => Object!CommandsAreTheOwners

(***************************************************************************)
(* An alert is withheld as sent only when the webhook has received that    *)
(* payload within the throttle, and the outside monitor is pinged only     *)
(* while no alert names a service or the device as silent                  *)
(* (operational_alerts.py, external_heartbeat.py).                         *)
(***************************************************************************)
SilenceIsTold ==
  /\ [](account = "alerts" => Alerting!WithheldWasReceived)
  /\ [][account = "alerts" => Alerting!PingOnlyInService]_accountVars

(***************************************************************************)
(* The prices of an area were fetched for the home that was bound then,    *)
(* and only the owner binds another home (price_scope.py,                  *)
(* poller/feeds.py).                                                       *)
(***************************************************************************)
BindingIsTheOwners ==
  /\ [](account = "prices" => Pricing!PricesAreTheHomes)
  /\ [][account = "prices" => Pricing!OnlyTheOwnerRebinds]_accountVars

(***************************************************************************)
(* Settings that several requests write stay in order among themselves,    *)
(* and a learning campaign starts only when no restore is owed             *)
(* (api/routers/settings.py, seasonal_learning.py).                        *)
(***************************************************************************)
CampaignsAreSafe ==
  /\ [](account = "settings" => Settings!SettingsCohere)
  /\ [][account = "settings" => Settings!StartsWithoutDebt]_accountVars

(***************************************************************************)
(* What a receipt of an operator reset says has been committed, and        *)
(* history is wiped only after the approved retirement of the same         *)
(* operation is committed with its receipt on disk, never what was         *)
(* collected after a reset (data_reset.py), through crashes, lost commits  *)
(* and replays.                                                            *)
(***************************************************************************)
ResetIsProven ==
  /\ [](account = "reset" => Reset!ReceiptsAreTrue)
  /\ [][account = "reset" => Reset!WipeOnlyProven]_accountVars

=============================================================================
