------------------------------ MODULE Protocols -----------------------------
(***************************************************************************)
(* Beside the reverse proxy and the packets of MQTT, three components of   *)
(* an HTTP server: the files it stores for its clients, the programs it    *)
(* runs for them and the files it sends them.  Each runs by itself: system *)
(* says which, and the properties state what is true of each while it      *)
(* runs.                                                                   *)
(***************************************************************************)
EXTENDS HttpProxy, MqttStream, Integers, Sequences, FiniteSets

CONSTANTS Uploaders, Names, RefusedNames, UploadRequests,   \* FileUpload
          Scripts, Outputs, Bodies, MaxRequestSize, Chunks, \* HttpCgi
          FileSizes, FileRanges, MaxSendMbuf                \* HttpFile

\* A part is for a name that is either stored or refused, a process writes lines
\* and bytes, a read that delivers nothing is none, a range has two numbers at the
\* most, and MG_MAX_HTTP_SEND_MBUF is the size of an array.
ASSUME ProtocolsAssumption ==
    /\ Names \cap RefusedNames = {}
    /\ UploadRequests \subseteq Seq([file : Names \cup RefusedNames, data : Seq(Nat)]) \ {<<>>}
    /\ IsFiniteSet(Scripts) /\ NULL \notin Scripts
    /\ Outputs \subseteq Seq({"field", "status", "location", "empty", "bad", "body"})
    /\ Bodies \subseteq Nat /\ MaxRequestSize \in Nat /\ Chunks \subseteq Nat \ {0}
    /\ FileSizes \subseteq Nat /\ MaxSendMbuf \in Nat \ {0} /\ MaxRequests \in Nat
    /\ FileRanges \subseteq {range \in Seq(Int) : Len(range) <= 2}

VARIABLES posts, disk, stored, nc, cgi, asked, served, eager, wild, size, conn, gone, changed,
          leaked, closed

UP == INSTANCE FileUpload WITH Conns <- Uploaders, Refused <- RefusedNames,
              Requests <- UploadRequests
CG == INSTANCE HttpCgi
FI == INSTANCE HttpFile WITH Sizes <- FileSizes, Ranges <- FileRanges
-----------------------------------------------------------------------------
(* Properties: what they state is said in the modules of the components.       *)

\* upload: parts are stored as they came, and each is answered once
\* (mg_file_upload_handler).
FilesStored == system = "upload" => UP!TypeOK /\ UP!UploadsStored

\* cgi: what a program writes is the answer, and the two connections end together
\* (mg_handle_cgi, mg_cgi_ev_handler).
CgiScripts == system = "cgi" => CG!TypeOK /\ CG!ScriptServed /\ CG!CgiPaired

\* file: answers have the length they state, the buffer its bound, a PUT its file
\* (mg_http_transfer_file_data).
FilesServed ==
    system = "file" => FI!TypeOK /\ FI!AnswersFramed /\ FI!SendMbufBounded /\ FI!PutStored
=============================================================================
