------------------------------ MODULE DataStorage ------------------------------
(***************************************************************************)
(* Data storage of one port (ilink/iolink_ds.c): when a device has been     *)
(* started up its parameters are uploaded into the master, or those stored  *)
(* there are downloaded into it, if the port is configured so.  Its         *)
(* callbacks all run on the main thread.                                    *)
(*                                                                          *)
(* p.ds is iolink_ds_port_t:                                                *)
(*   state, enable, upload, download, fault   as in the code                *)
(*   pending whether the configuration names the device (pending_id)        *)
(*   id      the set stored belongs to "nobody" or to the device configured *)
(*   valid   there is a set (master_ds.valid)                               *)
(*   pos     parameters uploaded or downloaded                              *)
(*   answer  what the device has just answered, where it makes a difference *)
(*   event   what an action returns: the event handled next                 *)
(*                                                                          *)
(* Rows for events that nothing raises (CLEAR, DISABLE, ENABLE_COM and      *)
(* ENABLE_NO_C) are left out, and so are sets the application writes itself *)
(* (SMI_ParServToDS).                                                       *)
(***************************************************************************)
EXTENDS ApplicationLayer, SequencesExt

CONSTANT
  Parameters \* how many parameters the device has

ASSUME DataStorageAssumption == Parameters \in Nat

\* Asking for the size, the device answers "big" if the set does not fit; asking
\* for its state, "locked" or "upload" (it wants its parameters to be uploaded);
\* asking for the checksum, "differs" if it is not that of the set stored.
\* "negative" refuses the service, and "garbled" is of an impossible length.
DsAnswerKinds ==
  {"plain", "big", "locked", "upload", "differs", "negative", "garbled"}

DsTransitions ==
  { <<"CheckActivationState", "ENABLE", "WaitingOnDSActivity", "none">>,
    <<"CheckActivationState", "CLR_DISA", "Off", "off">>,
    <<"CheckActivationState", "DELETE", "CheckActivationState", "delete">>,
    <<"CheckActivationState", "INIT", "CheckActivationState", "reinit">>,

    <<"WaitingOnDSActivity", "STARTUP", "CheckIdentity", "chk_id">>,
    <<"WaitingOnDSActivity", "UPLOAD", "CheckIdentity", "chk_id">>,
    <<"WaitingOnDSActivity", "DELETE", "WaitingOnDSActivity", "delete">>,
    <<"WaitingOnDSActivity", "INIT", "CheckActivationState", "reinit">>,

    <<"Off", "DELETE", "Off", "delete">>,
    <<"Off", "UPLOAD", "Off", "off">>,
    <<"Off", "STARTUP", "Off", "off">>,
    <<"Off", "INIT", "CheckActivationState", "reinit">>,

    <<"CheckIdentity", "PASSED", "CheckMemSize", "chk_mem_size">>,
    <<"CheckIdentity", "FAULT_ID", "DS_Fault", "fault">>,
    <<"CheckIdentity", "INIT", "CheckActivationState", "reinit">>,

    <<"CheckMemSize", "PASSED", "CheckUpload", "chk_upload">>,
    <<"CheckMemSize", "FAULT_SIZE", "DS_Fault", "fault">>,
    <<"CheckMemSize", "INIT", "CheckActivationState", "reinit">>,

    <<"CheckUpload", "DO_UPLOAD", "Decompose_IL", "upload">>,
    <<"CheckUpload", "NO_UPLOAD", "CheckDSValidity", "chk_validity">>,
    <<"CheckUpload", "FAULT_LOCK", "DS_Fault", "fault">>,

    <<"CheckDSValidity", "DO_UPLOAD", "Decompose_IL", "upload">>,
    <<"CheckDSValidity", "PASSED", "CheckChecksum", "chk_csum">>,

    <<"CheckChecksum", "DOWNLOAD", "Decompose_Set", "init_dl">>,
    <<"CheckChecksum", "READY", "DS_Ready", "ready">>,

    <<"DS_Ready", "READY", "WaitingOnDSActivity", "none">>,

    <<"DS_Fault", "FAULT_DONE", "WaitingOnDSActivity", "none">>,
    <<"DS_Fault", "COM_ERR", "WaitingOnDSActivity", "none">>,

    <<"Decompose_IL", "MORE_DATA", "ReadParameter", "readparam">>,
    <<"Decompose_IL", "STORE_DATA", "StoreDataSet", "none">>,
    <<"Decompose_IL", "COM_ERR", "UploadFault", "ul_fault">>,

    <<"ReadParameter", "READ_DONE", "Decompose_IL", "upload">>,
    <<"ReadParameter", "DEV_ERR", "UploadFault", "ul_fault">>,
    <<"ReadParameter", "COM_ERR", "UploadFault", "ul_fault">>,

    <<"StoreDataSet", "UL_DONE", "DS_Ready", "ready">>,
    <<"StoreDataSet", "COM_ERR", "UploadFault", "ul_fault">>,
    <<"UploadFault", "FAULT_UL", "DS_Fault", "fault">>,

    <<"Decompose_Set", "MORE_DATA", "Write_Parameter", "write_param">>,
    <<"Decompose_Set", "DOWNLOAD", "Decompose_Set", "decompose_set">>,
    <<"Decompose_Set", "DL_DONE", "Download_Done", "dl_done">>,

    <<"Write_Parameter", "WR_DONE", "Decompose_Set", "decompose_set">>,
    <<"Write_Parameter", "DEV_ERR", "Download_Fault", "dl_fault">>,
    <<"Write_Parameter", "COM_ERR", "Download_Fault", "dl_fault">>,

    <<"Download_Done", "READY", "DS_Ready", "ready">>,
    <<"Download_Done", "COM_ERR", "Download_Fault", "dl_fault">>,
    <<"Download_Fault", "FAULT_DL", "DS_Fault", "fault">> }

\* Services of the application layer and of the configuration manager.
DsRead(p)  == AL_ReadWrite_req(p, "READ", "ISDU", "DS")
DsWrite(p) == AL_ReadWrite_req(p, "WRITE", "ISDU", "DS")
DS_Ready(p) == Post(p, [type |-> "DS_READY"])
DS_Fault(p, fault) == Post(p, [type |-> "DS_FAULT", fault |-> fault])

Raises(p, event) == [p EXCEPT !.ds.event = event]

\* ds_check_vid_did: the set stored is not that of another device.
SameOwner(p) ==
  p.ds.id = "configured" => p.sm.real.differs \notin {"vendor", "device"}

\* ds_fault: if parameters were being transferred the device is told so first.
DsFaultAction(p, event) ==
  CASE event = "FAULT_ID"   -> Raises(DS_Fault(p, "ID"), "FAULT_DONE")
    [] event = "FAULT_SIZE" -> Raises(DS_Fault(p, "SIZE"), "FAULT_DONE")
    [] event = "FAULT_LOCK" ->
         Raises(DS_Fault([p EXCEPT !.ds.enable = FALSE], "LOCK"), "FAULT_DONE")
    [] event = "FAULT_UL" -> DsWrite([p EXCEPT !.ds.fault = "UP"])
    [] event = "FAULT_DL" -> DsWrite([p EXCEPT !.ds.fault = "DOWN"])

\* Mutant: the upload is over before its checksum has been stored.
DsUploadAction_Early(p, event) ==
  CASE event = "DO_UPLOAD" -> Raises([p EXCEPT !.ds.pos = 0], "MORE_DATA")
    [] event = "READ_DONE" ->
         IF p.ds.pos < Parameters THEN Raises([p EXCEPT !.ds.pos = @ + 1], "MORE_DATA")
                                  ELSE Raises(DsRead(DS_Ready(p)), "STORE_DATA")

\* ds_upload: first the list of parameters is read, then one after the other,
\* then the checksum.
DsUploadAction(p, event) ==
  CASE event = "DO_UPLOAD" -> Raises([p EXCEPT !.ds.pos = 0], "MORE_DATA")
    [] event = "READ_DONE" ->
         IF p.ds.pos < Parameters THEN Raises([p EXCEPT !.ds.pos = @ + 1], "MORE_DATA")
                                  ELSE Raises(DsRead(p), "STORE_DATA")

\* ds_decompose_set
DsDecomposeAction(p, event) ==
  LET q == IF event = "DOWNLOAD" THEN [p EXCEPT !.ds.pos = 0] ELSE p
  IN Raises(q, IF q.ds.pos >= Parameters THEN "DL_DONE" ELSE "MORE_DATA")

\* The action of a row
DsAct(p, action, event) ==
  CASE action = "none"   -> p
    [] action = "delete" -> [p EXCEPT !.ds.id = "nobody", !.ds.valid = FALSE]
    [] action = "reinit" -> Raises(p, IF p.ds.enable THEN "ENABLE" ELSE "CLR_DISA")
    [] action = "off"    -> IF event = "STARTUP" THEN DS_Ready(p) ELSE p
    [] action = "chk_id" -> IF SameOwner(p) THEN DsRead(p) ELSE Raises(p, "FAULT_ID")
    [] action = "chk_mem_size" ->
         IF p.ds.answer = "big" THEN Raises(p, "FAULT_SIZE") ELSE DsRead(p)
    [] action = "chk_upload" ->
        (CASE p.ds.answer = "locked" -> Raises(p, "FAULT_LOCK")
           [] p.ds.answer = "upload" /\ p.ds.upload -> DsWrite(p)
           [] OTHER -> DsRead(p))
    [] action = "chk_validity" -> IF p.ds.valid THEN Raises(p, "PASSED") ELSE DsWrite(p)
    [] action = "chk_csum" ->
         Raises(p, IF p.ds.download /\ p.ds.answer = "differs" THEN "DOWNLOAD" ELSE "READY")
    [] action = "upload"        -> DsUploadAction(p, event)
    [] action = "readparam"     -> DsRead(p)
    [] action = "decompose_set" -> DsDecomposeAction(p, event)
    [] action = "write_param"   -> DsWrite([p EXCEPT !.ds.pos = @ + 1])
    [] action \in {"init_dl", "dl_done"} -> DsWrite(p)
    [] action = "ul_fault" -> Raises(p, "FAULT_UL")
    [] action = "dl_fault" -> Raises(p, "FAULT_DL")
    [] action = "ready"    -> Raises(DS_Ready(p), "READY")
    [] action = "fault"    -> DsFaultAction(p, event)

\* One turn of the loop of iolink_ds_event
DsTurn(p) ==
  LET rows == {row \in DsTransitions : row[1] = p.ds.state /\ row[2] = p.ds.event} IN
  IF rows = {} THEN Raises(p, "NONE")
  ELSE LET row == CHOOSE r \in rows : TRUE
       IN DsAct([p EXCEPT !.ds.state = row[3], !.ds.event = "NONE"], row[4], p.ds.event)

\* iolink_ds_event: one turn after the other while there is an event.  None is left
\* after four turns, whatever the first one was.
DsEvent(p, event) == DsTurn(DsTurn(DsTurn(DsTurn(Raises(p, event)))))

-----------------------------------------------------------------------------
(* Callbacks of the jobs *)

\* ds_read_cnf_cb.  A service that fails is like one the device refuses: nothing
\* has been read.  The checksum is used even so, and after the event COM_ERR
\* the callback goes on.
DsReadCnf(p, job, answer) ==
  LET q == [p EXCEPT !.ds.answer = answer]
      error == ~job.ok \/ answer = "negative"
      checksum == IF error THEN DsEvent(q, "COM_ERR") ELSE q
      done == CASE job.ok /\ answer = "garbled"  -> DsEvent(q, "COM_ERR")
                [] p.ds.state = "CheckIdentity"  ->
                     DsEvent(q, IF error THEN "FAULT_ID" ELSE "PASSED")
                [] p.ds.state = "CheckMemSize"   ->
                     DsEvent(q, IF error THEN "FAULT_SIZE" ELSE "PASSED")
                [] p.ds.state = "ReadParameter"  ->
                     DsEvent(q, IF error THEN "DEV_ERR" ELSE "READ_DONE")
                [] p.ds.state = "CheckUpload"    -> DsEvent(checksum, "NO_UPLOAD")
                [] p.ds.state = "StoreDataSet"   -> DsWrite(checksum)
                [] p.ds.state = "Download_Done"  -> DsEvent(checksum, "READY")
                [] OTHER -> q
  IN [done EXCEPT !.ds.answer = "plain"]

\* ds_write_cnf_cb
DsWriteCnf(p, job, answer) ==
  CASE ~job.ok \/ answer = "negative" -> DsEvent(p, "COM_ERR")
    [] job.ok /\ answer # "negative" ->
        (CASE p.ds.state \in {"CheckUpload", "CheckDSValidity"} -> DsEvent(p, "DO_UPLOAD")
           [] p.ds.state = "Write_Parameter" -> DsEvent(p, "WR_DONE")
           [] p.ds.state = "StoreDataSet" ->
                DsEvent([p EXCEPT !.ds.id = p.ds.pending, !.ds.valid = TRUE], "UL_DONE")
           [] p.ds.state = "Decompose_Set" -> DsEvent(p, "DOWNLOAD")
           [] p.ds.state = "Download_Done" -> DsRead(p)
           [] p.ds.state = "DS_Fault" -> DsEvent(DS_Fault(p, p.ds.fault), "FAULT_DONE")
           [] OTHER -> p)

\* ds_startup_cb and ds_delete_cb
DsStartup(p, job) == DsEvent(p, "STARTUP")
DsDelete(p, job)  == DsEvent(p, "DELETE")

\* Mutant: the case of upload and download does not fall through to download.
DsInit_NoFallThrough(p, job) ==
  LET manual   == job.config.mode = "CFGCOM"
      download == manual /\ job.config.check = "V11_RESTORE"
  IN DsEvent([p EXCEPT !.ds.upload = manual /\ job.config.check = "V11_BAK_RESTORE",
                       !.ds.download = download, !.ds.enable = @ \/ download,
                       !.ds.pending = IF manual THEN "configured" ELSE "nobody"],
             "INIT")

\* ds_init_cb: what has been enabled once is never disabled here.
DsInit(p, job) ==
  LET manual   == job.config.mode = "CFGCOM"
      download == manual /\ job.config.check \in {"V11_RESTORE", "V11_BAK_RESTORE"}
  IN DsEvent([p EXCEPT !.ds.upload = manual /\ job.config.check = "V11_BAK_RESTORE",
                       !.ds.download = download,
                       !.ds.enable = @ \/ download,
                       !.ds.fault = "NONE",
                       !.ds.pending = IF manual THEN "configured" ELSE "nobody"],
             "INIT")

\* DS_Chk_Cfg: the set stored is that of the device configured.
DS_Chk_Cfg(p) == p.ds.id = "configured"

InitDataStorage ==
  [state |-> "CheckActivationState", enable |-> FALSE, upload |-> FALSE,
   download |-> FALSE, fault |-> "NONE", pending |-> "nobody", id |-> "nobody",
   valid |-> FALSE, pos |-> 0, answer |-> "plain", event |-> "NONE"]

=============================================================================
