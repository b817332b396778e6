------------------------ MODULE ConfigurationManager ------------------------
(***************************************************************************)
(* The configuration manager of one port (ilink/iolink_cm.c): it hands the  *)
(* configurations of the application to the system management, runs data   *)
(* storage when a device is ready, and tells the application what becomes  *)
(* of the port.  Its callbacks all run on the main thread.                 *)
(*                                                                          *)
(* p.cm is iolink_cm_port_t with the status of port_info:                   *)
(*   state   state of the FSM                                               *)
(*   config  cfg_list, the configuration accepted last                      *)
(*   status  port_info->port_status_info, what SMI_PortStatus returns       *)
(* p.lost says that the application has got the port event NO_DEV.          *)
(*                                                                          *)
(* Rows that nothing in the program can take (DS_CHANGE) are left out, and  *)
(* so are configurations that are refused as inconsistent.                  *)
(***************************************************************************)
EXTENDS SystemManagement, DeviceEvents, OnRequestExchange

CmTransitions ==
  { <<"CheckPortMode", "CFG_CHANGE", "CheckPortMode", "check_mode">>,
    <<"CheckPortMode", "SM_COMLOST", "CheckPortMode", "comlost">>,

    <<"SM_Startup", "SM_COMREADY", "DS_ParamManager", "start_ds">>,
    <<"SM_Startup", "CFG_CHANGE", "CheckPortMode", "check_mode">>,
    <<"SM_Startup", "SM_FAULT", "PortFault", "port_fault">>,
    <<"SM_Startup", "SM_COMLOST", "CheckPortMode", "comlost">>,

    <<"DS_ParamManager", "DS_Ready", "WaitingOnOperate", "ds_ready">>,
    <<"DS_ParamManager", "DS_Fault", "PortFault", "port_fault">>,
    <<"DS_ParamManager", "CFG_CHANGE", "DS_ParamManager", "ignore">>,
    <<"DS_ParamManager", "SM_COMLOST", "DS_ParamManager", "ignore">>,

    <<"PortFault", "CFG_CHANGE", "CheckPortMode", "check_mode">>,
    <<"PortFault", "SM_COMLOST", "CheckPortMode", "comlost">>,

    <<"WaitingOnOperate", "SM_OPERATE", "Port_Active", "sm_operate">>,
    <<"WaitingOnOperate", "CFG_CHANGE", "CheckPortMode", "check_mode">>,
    <<"WaitingOnOperate", "SM_COMLOST", "CheckPortMode", "comlost">>,
    <<"WaitingOnOperate", "DS_Fault", "PortFault", "port_fault">>,

    <<"Port_Active", "CFG_CHANGE", "CheckPortMode", "check_mode">>,
    <<"Port_Active", "SM_COMLOST", "CheckPortMode", "comlost">>,
    <<"Port_Active", "DS_Ready", "Port_Active", "ignore">>,
    <<"Port_Active", "DS_Fault", "PortFault", "port_fault">>,

    <<"Port_DIDO", "CFG_CHANGE", "CheckPortMode", "check_mode">>,
    <<"Port_Deactivated", "CFG_CHANGE", "CheckPortMode", "check_mode">> }

\* SM_SetPortConfig_req with cm->cfg_list, and SM_Operate
SetPortConfig(p) ==
  Post(p, [type |-> "SM_SET_PORT_CFG_REQ", config |-> p.cm.config])
SM_Operate(p) == Post(p, [type |-> "SM_OPERATE_REQ"])

\* set_port_config: data storage is told of the configuration first.
SetPortConfigAndStorage(p) ==
  SetPortConfig(Post(p, [type |-> "DS_INIT", config |-> p.cm.config]))

DS_Delete(p) == Post(p, [type |-> "DS_DELETE"])

\* cm_startup
Startup(p) ==
  SetPortConfigAndStorage(
    IF p.cm.config.mode = "AUTOCOM" \/ ~DS_Chk_Cfg(p) THEN DS_Delete(p) ELSE p)

\* Mutant: the on-request data exchange is not stopped.
CheckMode_AccessKept(p, config) ==
  LET q == [p EXCEPT !.cm.config = config] IN
  CASE config.mode \in {"CFGCOM", "AUTOCOM"} ->
         Startup([q EXCEPT !.cm.state = "SM_Startup"])
    [] config.mode = "DIDO" -> SetPortConfigAndStorage(
         DS_Delete([q EXCEPT !.cm.state = "Port_DIDO", !.cm.status = "DIDO"]))
    [] config.mode = "INACTIVE" -> SetPortConfig(
         [q EXCEPT !.cm.state = "Port_Deactivated", !.cm.status = "DEACTIVATED"])

\* cm_check_mode and the transition from CheckPortMode it leads to: cm_startup,
\* cm_dido or cm_deactivate
CheckMode(p, config) ==
  LET q == Post([p EXCEPT !.cm.config = config], [type |-> "OD_STOP"]) IN
  CASE config.mode \in {"CFGCOM", "AUTOCOM"} ->
         Startup([q EXCEPT !.cm.state = "SM_Startup"])
    [] config.mode = "DIDO" ->
         SetPortConfigAndStorage(
           DS_Delete([q EXCEPT !.cm.state = "Port_DIDO", !.cm.status = "DIDO"]))
    [] config.mode = "INACTIVE" ->
         SetPortConfig([q EXCEPT !.cm.state = "Port_Deactivated",
                                 !.cm.status = "DEACTIVATED"])

\* Mutant: the status of the port stays what it was.
Comlost_StatusKept(p) == [p EXCEPT !.lost = TRUE]

\* cm_comlost: the application gets the port event NO_DEV.
Comlost(p) == [p EXCEPT !.cm.status = "NO_DEV", !.lost = TRUE]

\* cm_port_fault: if data storage has failed because the device does not answer,
\* it is a lost communication, of the state PortFault.
PortFault(p, job) ==
  IF job.type = "DS_FAULT" /\ job.fault = "COM_ERR"
  THEN [Comlost(p) EXCEPT !.cm.state = "CheckPortMode"]
  ELSE [p EXCEPT !.cm.status = "PORT_DIAG"]

\* The action of a row; job is the one whose callback raises the event.
CmAct(p, action, job) ==
  CASE action = "ignore"     -> p
    [] action = "check_mode" -> CheckMode(p, job.config)
    [] action = "comlost"    -> Comlost(p)
    [] action = "start_ds"   ->
         Post([p EXCEPT !.cm.status = "PREOP"], [type |-> "DS_STARTUP"])
    [] action = "ds_ready"   -> SM_Operate(p)
    [] action = "sm_operate" -> Post([p EXCEPT !.cm.status = "OP"], [type |-> "OD_START"])
    [] action = "port_fault" -> PortFault(p, job)

\* iolink_cm_event
CmEvent(p, event, job) ==
  LET rows == {row \in CmTransitions : row[1] = p.cm.state /\ row[2] = event} IN
  IF rows = {} THEN p
  ELSE LET row == CHOOSE r \in rows : TRUE
       IN CmAct([p EXCEPT !.cm.state = row[3]], row[4], job)

\* cm_sm_port_mode_ind_cb: INACTIVE changes the status only.
Faults == {"REVISION_FAULT", "COMP_FAULT", "SERNUM_FAULT", "CYCTIME_FAULT"}

CmPortModeInd(p, job) ==
  CASE job.mode = "COMREADY" -> CmEvent(p, "SM_COMREADY", job)
    [] job.mode \in Faults   -> CmEvent(p, "SM_FAULT", job)
    [] job.mode = "OPERATE"  -> CmEvent(p, "SM_OPERATE", job)
    [] job.mode = "COMLOST"  -> CmEvent(p, "SM_COMLOST", job)
    [] job.mode = "INACTIVE" -> [p EXCEPT !.cm.status = "DEACTIVATED"]
    [] job.mode = "DIDO"     -> p

\* cm_smi_portconfiguration_cb, cm_ds_ready_cb, cm_ds_fault_cb
CmPortConfiguration(p, job) == CmEvent(p, "CFG_CHANGE", job)
CmDsReady(p, job) == CmEvent(p, "DS_Ready", job)
CmDsFault(p, job) == CmEvent(p, "DS_Fault", job)

InitConfigurationManager ==
  [state |-> "Port_Deactivated", config |-> NoConfig, status |-> "DEACTIVATED"]

=============================================================================
