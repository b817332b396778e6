---------------------------- MODULE MCPortStack ----------------------------
(***************************************************************************)
(* Instances of PortStack for TLC: devices, configurations, and budgets of *)
(* what may happen.                                                        *)
(***************************************************************************)
EXTENDS PortStack

Device(rev, differs) == [rev |-> rev, differs |-> differs, adapts |-> FALSE]

OneDevice == {Device("V11", "nothing")}
OldDevice == {Device("V10", "nothing")}
AllDevices == {d \in DeviceRecords : d.differs # "overlong"}

\* Enough to be exchanged for each other: each outcome of a start-up occurs.
SomeDevices == {Device("V11", "nothing"), Device("V11", "device"),
   Device("V10", "nothing"), Device("V10", "serial"), Device("V10_014E", "vendor"),
   Device("V11", "overlong")}

Auto == {[mode |-> "AUTOCOM", check |-> "NO"]}
Manual == {[mode |-> "CFGCOM", check |-> "V11"]}
ManualOld == {[mode |-> "CFGCOM", check |-> "V10"]}
Backup == {[mode |-> "CFGCOM", check |-> "V11_BAK_RESTORE"]}
AllCom == [mode : {"AUTOCOM", "CFGCOM"}, check : {"NO", "V10", "V11"}]
AllModes == {[mode |-> m, check |-> "NO"] : m \in {"AUTOCOM", "DIDO", "INACTIVE"}}
TwoRevisions == Manual \union ManualOld
AllModesAndBackup ==
  AllModes \union [mode : {"CFGCOM"}, check : {"V11_RESTORE", "V11_BAK_RESTORE"}]

Operational == {"OP"}
Found == {"PREOP", "OP", "NO_DEV"}

OneNotice == {<<"notice">>}
AlarmsAndUpload == {<<"alarm", "notice">>, <<"upload">>}

Nothing ==
  [configs |-> 1, restarts |-> 0, errors |-> 0, unplugs |-> 0, services |-> 0,
   flags |-> 0, controls |-> 0]

\* One of the devices is there at first, with the budget.
With(devices, budget) == [device : devices, budget : {budget}]

Undisturbed == With(AllDevices, [Nothing EXCEPT !.services = 2])
Disturbed ==
  With(OneDevice, [Nothing EXCEPT !.restarts = 1, !.errors = 1, !.unplugs = 1, !.services = 1])
Unplugged == With(OneDevice, [Nothing EXCEPT !.restarts = 1, !.unplugs = 1])
OldUnplugged == With(OldDevice, [Nothing EXCEPT !.unplugs = 1])
SwapsOrBusyLine ==
  With(SomeDevices, [Nothing EXCEPT !.restarts = 1, !.unplugs = 2])
    \union With(OneDevice, [Nothing EXCEPT !.services = 1, !.flags = 2, !.controls = 1])
OneEvent == With(OneDevice, [Nothing EXCEPT !.flags = 1])
Reconfigured == With(OneDevice, [Nothing EXCEPT !.configs = 2, !.restarts = 1, !.unplugs = 1])
=============================================================================
