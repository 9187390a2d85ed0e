----------------------------- MODULE MCConsole ------------------------------
(* The console's two halves in one run: Settings, and the users and API keys  *)
(* of Access.  They share no table, so a behaviour is about one of them.      *)
EXTENDS MCSettings, MCAccess

ConsoleInit ==
    /\ SettingsInit /\ UsersInit /\ ApiInit
    /\ \/ side = "settings"
       \/ side \in {"users", "keys"} /\ table = MCKeys

ConsoleNext ==
    \/ AccessNext /\ UNCHANGED settingsVars
    \/ side = "settings" /\ SettingsNext /\ UNCHANGED accessVars

ConsoleSpec == ConsoleInit /\ [][ConsoleNext]_<<settingsVars, accessVars>>
=============================================================================
