--------------------------- MODULE SystemManagement ---------------------------
(***************************************************************************)
(* The system management of one port (ilink/iolink_sm.c): it starts a       *)
(* device up, compares it with the configuration and takes it to OPERATE.   *)
(* Its callbacks all run on the main thread.                                *)
(*                                                                          *)
(* The state machine is the table of the C code: a set of rows <<state,     *)
(* event, next state, action>>.  An event that has no row is ignored.  No   *)
(* action returns another event, so each event makes one transition.        *)
(*                                                                          *)
(* p.sm is iolink_sm_port_t:                                                *)
(*   config what is configured: the mode, and the check of the device:      *)
(*          "NO" (none), "V10" (identical), "V11" (compatible), or one of   *)
(*          the latter with data storage, "V11_RESTORE" (downloads) and     *)
(*          "V11_BAK_RESTORE" (uploads too)                                 *)
(*   real   what has been read of the device                                  *)
(* p.dev is the device:                                                     *)
(*   rev    "V11", "V10", or "V10_014E" for the vendor the code favours     *)
(*   differs in what it differs from the device configured: "nothing", or    *)
(*          the "cycle" time, "vendor", "device" or "serial" number; or the   *)
(*          serial number is "overlong", more than there is room for          *)
(*   adapts whether it takes the identity the master writes                 *)
(* Of each run of registers read or written one after the other the first   *)
(* and the last stand for all.                                              *)
(***************************************************************************)
EXTENDS ApplicationLayer

Transitions ==
  { <<"PortInactive", "DL_Mode_STARTUP", "ReadComParameter", "readcomparameter">>,
    <<"PortInactive", "SetPortConfig_INACTIVE", "PortInactive", "portinactive">>,
    <<"PortInactive", "SetPortConfig_COM", "PortInactive", "portinactive">>,
    <<"PortInactive", "SetPortConfig_DIDO", "DIDO", "dido">>,
    <<"PortInactive", "SM_Operate", "PortInactive", "ignore">>,
    <<"PortInactive", "DL_Mode_COMLOST", "PortInactive", "ignore">>,

    <<"waitonDLPreoperate", "DL_Mode_PREOPERATE", "checkSerNum", "checkSerNum">>,
    <<"waitonDLPreoperate", "CNF_COMLOST", "PortInactive", "comlost">>,
    <<"waitonDLPreoperate", "DL_Mode_COMLOST", "waitonDLPreoperate", "ignore">>,

    <<"checkSerNum", "SerNumOK", "wait", "wait">>,
    <<"checkSerNum", "SerNumFault", "InspectionFault", "inspectFault">>,
    <<"checkSerNum", "CNF_COMLOST", "PortInactive", "comlost">>,
    <<"checkSerNum", "SetPortConfig_COM", "PortInactive", "portinactive">>,
    <<"checkSerNum", "DL_Mode_COMLOST", "checkSerNum", "ignore">>,
    <<"checkSerNum", "SetPortConfig_INACTIVE", "waitForFallback", "fallback">>,

    <<"wait", "SetPortConfig_COM", "PortInactive", "portinactive">>,
    <<"wait", "SetPortConfig_DIDO", "DIDO", "dido">>,
    <<"wait", "SM_Operate_v10", "SMOperate", "smoperate_ind">>,
    <<"wait", "DL_Mode_COMLOST", "PortInactive", "comlost">>,
    <<"wait", "WRITE_MASTER_CYCL_REQ", "write_master_cycl", "wr_master_cycl">>,
    <<"wait", "SetPortConfig_INACTIVE", "waitForFallback", "fallback">>,

    <<"SMOperate", "DL_Mode_COMLOST", "PortInactive", "comlost">>,
    <<"SMOperate", "DL_Mode_OPERATE", "SMOperate", "smoperate_ind">>,
    <<"SMOperate", "SetPortConfig_INACTIVE", "waitForFallback", "fallback">>,
    <<"SMOperate", "SetPortConfig_COM", "PortInactive", "portinactive">>,
    <<"SMOperate", "SetPortConfig_DIDO", "DIDO", "dido">>,

    <<"InspectionFault", "RevisionFault", "InspectionFault", "inspectFault">>,
    <<"InspectionFault", "CompFault", "InspectionFault", "inspectFault">>,
    <<"InspectionFault", "CycTimeFault", "InspectionFault", "inspectFault">>,
    <<"InspectionFault", "SetPortConfig_INACTIVE", "waitForFallback", "fallback">>,
    <<"InspectionFault", "SetPortConfig_COM", "PortInactive", "portinactive">>,
    <<"InspectionFault", "SetPortConfig_DIDO", "DIDO", "dido">>,
    <<"InspectionFault", "DL_Mode_COMLOST", "PortInactive", "comlost">>,

    <<"waitonDLOperate", "DL_Mode_OPERATE", "checkSerNum", "checkSerNum">>,
    <<"waitonDLOperate", "CNF_COMLOST", "PortInactive", "comlost">>,
    <<"waitonDLOperate", "DL_Mode_COMLOST", "PortInactive", "comlost">>,

    <<"DIDO", "SetPortConfig_INACTIVE", "PortInactive", "portinactive">>,
    <<"DIDO", "SetPortConfig_COM", "PortInactive", "portinactive">>,
    <<"DIDO", "SetPortConfig_DIDO", "DIDO", "dido">>,

    <<"ReadComParameter", "NOT_V10", "CheckVxy", "checkVxy">>,
    <<"ReadComParameter", "V10", "CheckCompV10", "checkComp">>,
    <<"ReadComParameter", "CNF_COMLOST", "PortInactive", "comlost">>,
    <<"ReadComParameter", "DL_Mode_COMLOST", "ReadComParameter", "ignore">>,
    <<"ReadComParameter", "SetPortConfig_COM", "PortInactive", "portinactive">>,

    <<"CheckCompV10", "V10CompOK", "waitonDLOperate", "waitonDLOp">>,
    <<"CheckCompV10", "V10CompFault", "InspectionFault", "inspectFault">>,
    <<"CheckCompV10", "CycTimeFault_V10", "InspectionFault", "inspectFault">>,
    <<"CheckCompV10", "CNF_COMLOST", "PortInactive", "comlost">>,
    <<"CheckCompV10", "DL_Mode_COMLOST", "CheckCompV10", "ignore">>,

    <<"CheckVxy", "REVISION_OK", "CheckComp", "checkComp">>,
    <<"CheckVxy", "RETRY_STARTUP", "RestartDevice", "restartDevice">>,
    <<"CheckVxy", "RevisionFault", "InspectionFault", "write_mcmd_preop">>,
    <<"CheckVxy", "CNF_COMLOST", "PortInactive", "comlost">>,
    <<"CheckVxy", "DL_Mode_COMLOST", "CheckVxy", "ignore">>,

    <<"CheckComp", "CompOK", "waitonDLPreoperate", "write_mcmd_preop">>,
    <<"CheckComp", "RETRY_STARTUP", "RestartDevice", "restartDevice">>,
    <<"CheckComp", "CompFault", "InspectionFault", "write_mcmd_preop">>,
    <<"CheckComp", "CycTimeFault", "InspectionFault", "write_mcmd_preop">>,
    <<"CheckComp", "CNF_COMLOST", "PortInactive", "comlost">>,
    <<"CheckComp", "DL_Mode_COMLOST", "CheckComp", "ignore">>,

    <<"RestartDevice", "WriteDone", "ReadComParameter", "readcomparameter">>,
    <<"RestartDevice", "CNF_COMLOST", "RestartDevice", "comlost">>,
    <<"RestartDevice", "DL_Mode_COMLOST", "CheckComp", "ignore">>,

    <<"waitForFallback", "SetPortConfig_INACTIVE", "PortInactive", "portinactive">>,
    <<"waitForFallback", "DL_Mode_COMLOST", "PortInactive", "comlost">>,

    <<"write_master_cycl", "CNF_COMLOST", "PortInactive", "comlost">>,
    <<"write_master_cycl", "WRITE_MASTER_CYCL_DONE", "wait_devmode_cnf", "write_devmode">>,
    <<"write_master_cycl", "DL_Mode_COMLOST", "write_master_cycl", "ignore">>,

    <<"wait_devmode_cnf", "SM_Operate_v10", "SMOperate", "smoperate_ind">>,
    <<"wait_devmode_cnf", "SM_Operate", "SMOperate", "smoperate_ind">>,
    <<"wait_devmode_cnf", "CNF_COMLOST", "PortInactive", "comlost">>,
    <<"wait_devmode_cnf", "DL_Mode_COMLOST", "wait_devmode_cnf", "ignore">> }

-----------------------------------------------------------------------------
(* What the actions call *)

SM_PortMode_ind(p, mode) == Post(p, [type |-> "SM_PORT_MODE_IND", mode |-> mode])

\* sm_DL_Read_Write_req
SmRead(p, addr)  == DL_ReadWrite_req([p EXCEPT !.sm.dl_addr = addr], addr, "READ")
SmWrite(p, addr) == DL_ReadWrite_req([p EXCEPT !.sm.dl_addr = addr], addr, "WRITE")

\* sm_portinactive
Portinactive(p, event) ==
  LET q == [p EXCEPT !.sm.dl_addr = "DUMMY_WURQ", !.sm.error_event = "NONE"] IN
  CASE event = "SetPortConfig_INACTIVE" ->
         DL_SetMode_req(SM_PortMode_ind(q, "INACTIVE"), "INACTIVE")
    [] event = "SetPortConfig_COM" -> DL_SetMode_req(PL_SetMode_req(q, "SDCI"), "STARTUP")

\* sm_inspectFault
InspectFault(p, event) ==
  CASE event = "V10CompFault" -> DL_SetMode_req(SM_PortMode_ind(p, "COMP_FAULT"), "OPERATE")
    [] event = "RevisionFault" ->
         DL_SetMode_req(SM_PortMode_ind(p, "REVISION_FAULT"), "PREOPERATE")
    [] event = "CompFault" ->
         DL_SetMode_req(SM_PortMode_ind(p, "COMP_FAULT"), "PREOPERATE")
    [] event = "SerNumFault" -> SM_PortMode_ind(p, "SERNUM_FAULT")
    [] event = "CycTimeFault" ->
         DL_SetMode_req(SM_PortMode_ind(p, "CYCTIME_FAULT"), "PREOPERATE")
    [] event = "CycTimeFault_V10" ->
         DL_SetMode_req(SM_PortMode_ind(p, "CYCTIME_FAULT"), "INACTIVE")

\* The action of a row
Act(p, action, event) ==
  CASE action = "ignore" -> p
    [] action = "readcomparameter" ->
         SmRead([p EXCEPT !.sm.comp_retry = IF event = "DL_Mode_STARTUP" THEN 0 ELSE @],
                "MIN_CYCL")
    [] action = "restartDevice" ->
         SmWrite([p EXCEPT !.sm.comp_retry = @ + 1], "REV_ID")
    [] action = "checkComp"        -> SmRead(p, "VID_1")
    [] action = "checkVxy"         -> SmWrite(p, "MASTER_CMD")
    [] action = "write_mcmd_preop" -> SmWrite(p, "MASTER_CMD")
    [] action = "waitonDLOp"       -> SmWrite(p, "MASTER_CYCL")
    [] action = "fallback"         -> DL_Write_Devicemode_req(p, "INACTIVE")
    [] action = "write_devmode"    -> DL_Write_Devicemode_req(p, "OPERATE")
    [] action = "portinactive"     -> Portinactive(p, event)
    [] action = "comlost" -> SM_PortMode_ind(DL_SetMode_req(p, "INACTIVE"), "COMLOST")
    [] action = "inspectFault"     -> InspectFault(p, event)
    [] action = "checkSerNum"      -> AL_ReadWrite_req(p, "READ", "ISDU", "SM")
    [] action = "wr_master_cycl"   -> AL_ReadWrite_req(p, "WRITE", "PARAM", "SM")
    [] action = "wait"             -> SM_PortMode_ind(p, "COMREADY")
    [] action = "smoperate_ind" ->
         IF event \in {"DL_Mode_OPERATE", "SM_Operate_v10"}
         THEN SM_PortMode_ind(p, "OPERATE") ELSE p
    [] action = "dido" ->
         DL_SetMode_req(SM_PortMode_ind(PL_SetMode_req(p, "DIDO"), "DIDO"), "INACTIVE")

\* iolink_sm_event
SmEvent(p, event) ==
  LET rows == {row \in Transitions : row[1] = p.sm.state /\ row[2] = event} IN
  IF rows = {} THEN p
  ELSE LET row == CHOOSE r \in rows : TRUE
       IN Act([p EXCEPT !.sm.state = row[3]], row[4], event)

\* Mutant: the fault found is not remembered.
FaultEvent_Forgotten(p, event) == SmEvent(p, event)

\* An event that is also remembered as the fault found
FaultEvent(p, event) == SmEvent([p EXCEPT !.sm.error_event = event], event)

AssertFails(p) == [p EXCEPT !.failed = "assertion"]

-----------------------------------------------------------------------------
(* Callbacks of the jobs *)

\* How what has been read compares with what is configured.  The revision
\* configured follows from the check, and no serial number is ever configured:
\* the one of the device must be empty.
SameRevision(p) ==
  CASE p.sm.config.check = "NO"  -> TRUE
    [] p.sm.config.check = "V10" -> p.sm.real.rev # "V11"
    [] OTHER -> p.sm.real.rev = "V11"
Checked(p) == p.sm.config.check # "NO"
SameSerial(p) == p.sm.config.check = "V10" => p.sm.real.differs # "serial"

\* sm_do_check_comp_v10
DoCheckCompV10(p) ==
  CASE p.sm.real.differs = "cycle" -> FaultEvent(p, "CycTimeFault_V10")
    [] Checked(p) /\ p.sm.real.differs \in {"vendor", "device"} ->
         FaultEvent(p, "V10CompFault")
    [] OTHER -> SmEvent(p, "V10CompOK")

\* Mutant: whatever the device is after the retry, it is accepted.
DoCheckComp_Retried(p) ==
  CASE p.sm.real.differs = "cycle" -> FaultEvent(p, "CycTimeFault")
    [] Checked(p) /\ p.sm.real.differs \in {"vendor", "device"} /\ p.sm.comp_retry = 0 ->
         SmEvent(p, "RETRY_STARTUP")
    [] OTHER -> SmEvent(p, "CompOK")

\* sm_do_check_comp
DoCheckComp(p) ==
  CASE p.sm.real.differs = "cycle" -> FaultEvent(p, "CycTimeFault")
    [] Checked(p) /\ p.sm.real.differs = "vendor" -> FaultEvent(p, "CompFault")
    [] Checked(p) /\ p.sm.real.differs = "device" ->
         IF p.sm.comp_retry = 0 THEN SmEvent(p, "RETRY_STARTUP")
                                ELSE FaultEvent(p, "CompFault")
    [] OTHER -> SmEvent(p, "CompOK")

\* What the state machine does with the register it has read
NextRead(p, addr) ==
  CASE p.sm.state = "ReadComParameter" ->
         IF addr # "PDO" THEN SmRead(p, "PDO")
         ELSE SmEvent(p, IF p.sm.real.rev = "V11" THEN "NOT_V10" ELSE "V10")
    [] p.sm.state \in {"CheckComp", "CheckCompV10"} ->
        (CASE addr # "FID_2" -> SmRead(p, "FID_2")
           [] addr = "FID_2" /\ p.sm.state = "CheckCompV10" -> DoCheckCompV10(p)
           [] addr = "FID_2" /\ p.sm.state = "CheckComp" -> DoCheckComp(p))
    [] p.sm.state = "RestartDevice" -> SmEvent(p, "WriteDone")
    [] OTHER -> AssertFails(p)

\* Mutant: a lost communication is reported, and the state kept.
SmReadCnf_Stays(p, job) ==
  CASE ~job.ok -> SM_PortMode_ind(DL_SetMode_req(p, "INACTIVE"), "COMLOST")
    [] job.ok /\ job.addr = "DUMMY_WURQ" -> p
    [] job.ok /\ job.addr # "DUMMY_WURQ" ->
         NextRead([p EXCEPT !.sm.real = job.from], job.addr)

\* sm_DL_Read_cnf_cb
SmReadCnf(p, job) ==
  CASE ~job.ok -> SmEvent(p, "CNF_COMLOST")
    [] job.ok /\ job.addr = "DUMMY_WURQ" -> p
    [] job.ok /\ job.addr \notin {"DUMMY_WURQ", "MIN_CYCL", "PDO", "VID_1", "FID_2"} ->
         AssertFails(p)
    [] job.ok /\ job.addr \in {"MIN_CYCL", "PDO", "VID_1", "FID_2"} ->
         NextRead([p EXCEPT !.sm.real = job.from], job.addr)

\* sm_DL_Write_cnf_checkvxy
CheckVxyCnf(p) ==
  CASE SameRevision(p) -> SmEvent(p, "REVISION_OK")
    [] ~SameRevision(p) ->
         IF p.sm.comp_retry = 0 THEN SmEvent(p, "RETRY_STARTUP")
                                ELSE FaultEvent(p, "RevisionFault")

\* sm_DL_Write_cnf_restart_dev: the device number is written only if one is
\* configured.  The last command is DEVICE_IDENT.
RestartDeviceCnf(p, addr) ==
  CASE addr = "REV_ID" ->
        (CASE p.sm.config.mode = "CFGCOM"  -> SmWrite(p, "DID_3")
           [] p.sm.config.mode = "AUTOCOM" -> SmWrite(p, "MASTER_CMD")
           [] OTHER -> AssertFails(p))
    [] addr = "DID_3" -> SmWrite(p, "MASTER_CMD")
    [] addr = "MASTER_CMD" -> SmRead(p, "MIN_CYCL")
    [] OTHER -> p

\* sm_DL_Write_cnf_waiton_operate
WaitOnOperateCnf(p, addr) ==
  CASE addr = "MASTER_CYCL" -> SmWrite(p, "MASTER_CMD")
    [] addr = "MASTER_CMD"  -> DL_SetMode_req(p, "OPERATE")
    [] OTHER -> p

\* sm_DL_Write_cnf_cb
SmWriteCnf(p, job) ==
  CASE ~job.ok -> SmEvent(p, "CNF_COMLOST")
    [] job.ok ->
        (CASE p.sm.state = "waitonDLPreoperate" -> DL_SetMode_req(p, "PREOPERATE")
           [] p.sm.state = "InspectionFault" -> SmEvent(p, p.sm.error_event)
           [] p.sm.state = "CheckVxy"        -> CheckVxyCnf(p)
           [] p.sm.state = "RestartDevice"   -> RestartDeviceCnf(p, job.addr)
           [] p.sm.state = "waitonDLOperate" -> WaitOnOperateCnf(p, job.addr)
           [] OTHER -> AssertFails(p))

\* sm_AL_Read_cnf_cb with sm_check_sernum, and sm_write_cycl_cnf_cb.  That the
\* device has no such index is an answer (ok), with an empty serial number.
SmAlCnf(p, job) ==
  CASE job.direction = "WRITE" ->
         SmEvent(p, IF job.ok THEN "WRITE_MASTER_CYCL_DONE" ELSE "CNF_COMLOST")
    [] job.direction = "READ" /\ ~job.ok ->
         SmEvent(p, IF p.sm.real.rev = "V11" THEN "CNF_COMLOST" ELSE "DL_Mode_COMLOST")
    [] job.direction = "READ" /\ job.ok /\ job.from.differs = "overlong" ->
         SmEvent(p, "CNF_COMLOST")
    [] job.direction = "READ" /\ job.ok /\ job.from.differs # "overlong" ->
         LET q == [p EXCEPT !.sm.real.differs = job.from.differs] IN
         IF SameSerial(q) THEN SmEvent(q, "SerNumOK") ELSE FaultEvent(q, "SerNumFault")

\* sm_DL_Mode_ind_cb and its helpers
SmModeInd(p, mode) ==
  CASE mode = "COMLOST" ->
         IF p.sm.state \in {"PortInactive", "DIDO"} THEN p
                                                    ELSE SmEvent(p, "DL_Mode_COMLOST")
    [] mode # "COMLOST" ->
        (CASE p.sm.state = "PortInactive" ->
               (CASE mode = "STARTUP" -> SmEvent(p, "DL_Mode_STARTUP")
                  [] mode = "INACTIVE" ->
                       SM_PortMode_ind(p, IF p.sm.config.mode = "INACTIVE" THEN "INACTIVE"
                                                                      ELSE "COMLOST")
                  [] OTHER -> p)
           [] p.sm.state = "waitonDLPreoperate" ->
                IF mode = "PREOPERATE" THEN SmEvent(p, "DL_Mode_PREOPERATE") ELSE p
           [] p.sm.state \in {"SMOperate", "waitonDLOperate"} ->
                IF mode = "OPERATE" THEN SmEvent(p, "DL_Mode_OPERATE") ELSE p
           [] p.sm.state = "InspectionFault" -> p
           [] OTHER -> SmEvent(p, "DL_Mode_COMLOST"))

\* sm_DL_Write_Devmode_cnf
SmDevmodeCnf(p, ok) ==
  CASE ok /\ p.sm.state = "wait_devmode_cnf" ->
         SmEvent(DL_SetMode_req(p, "OPERATE"),
                 IF p.sm.real.rev = "V11" THEN "SM_Operate" ELSE "SM_Operate_v10")
    [] ok /\ p.sm.state = "waitForFallback" -> SmEvent(p, "SetPortConfig_INACTIVE")
    [] OTHER -> SmEvent(p, IF p.sm.state = "wait_devmode_cnf" THEN "CNF_COMLOST"
                                                              ELSE "DL_Mode_COMLOST")

\* sm_operate_cb
SmOperate(p) ==
  SmEvent(p, IF p.sm.real.rev = "V10_014E" THEN "SM_Operate_v10" ELSE "WRITE_MASTER_CYCL_REQ")

\* sm_setportcfg_req_cb: refused without an answer while the device is started up.
ConfigurableStates ==
  {"PortInactive", "wait", "SMOperate", "InspectionFault", "DIDO", "checkSerNum"}

SmSetPortConfig(p, config) ==
  IF p.sm.state \notin ConfigurableStates THEN p
  ELSE SmEvent([p EXCEPT !.sm.config = config],
               CASE config.mode \in {"CFGCOM", "AUTOCOM"} -> "SetPortConfig_COM"
                 [] config.mode = "DIDO" -> "SetPortConfig_DIDO"
                 [] config.mode = "INACTIVE" -> "SetPortConfig_INACTIVE")

NoConfig == [mode |-> "INACTIVE", check |-> "NO"]

InitSystemManagement ==
  [state |-> "PortInactive", dl_addr |-> "DUMMY_WURQ", comp_retry |-> 0,
   error_event |-> "NONE", config |-> NoConfig, real |-> NoIdentity]

=============================================================================
