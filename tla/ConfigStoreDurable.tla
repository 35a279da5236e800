-------------------------- MODULE ConfigStoreDurable --------------------------
(* The configuration manager as an implementation of DurableSettings.        *)
EXTENDS ConfigStore

\* Callers see Manager.cfg once Load has returned; what a restart serves is config.json.
Durable == INSTANCE DurableSettings WITH
    Items <- Ids, Values <- Confs, Absent <- NoItem, Reports <- Rts, NoReport <- Zero,
    serving <- phase = "up",
    seen <- IF phase = "up" THEN memConf ELSE config.conf,
    kept <- config.conf,
    reports <- IF phase = "up" THEN memRt ELSE AllZero

\* Every step of the manager, its failures, crashes and restarts included, is one step of
\* DurableSettings or none: a save is kept before it is seen, nothing else is ever seen or served,
\* and no save takes back what UpdateState reported (config/store.go: Update, Replace, Load).
SettingsAreDurable == Durable!Spec
==============================================================================
