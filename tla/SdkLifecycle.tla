---------------------------- MODULE SdkLifecycle ----------------------------
(***************************************************************************)
(* Start-up and shut-down of the AWS SDK (aws/sdk-init.cc) and, behind its *)
(* HTTP client factory, of libcurl (aws/curl/HttpClientFactory.cpp and     *)
(* HttpClient.cpp).  Each function holds aws_init_lock to its end: a call  *)
(* is a step.  The program that EXTENDS this module makes the calls.       *)
(***************************************************************************)
EXTENDS Naturals

VARIABLES
    aws_initialized,
    isInit,    \* CurlHttpClient::isInit
    curl_inits \* curl_global_init calls that no curl_global_cleanup has undone

sdkVars == <<aws_initialized, isInit, curl_inits>>

SdkInit ==
    /\ aws_initialized = FALSE
    /\ isInit = FALSE
    /\ curl_inits = 0

\* CurlHttpClient::InitGlobalState; nothing ever resets isInit.
InitGlobalState ==
    /\ isInit' = TRUE
    /\ curl_inits' = IF isInit THEN curl_inits ELSE curl_inits + 1

\* Aws::InitAPI calls InitStaticState of the factory.
InitializeAwsSdk ==
    /\ aws_initialized' = TRUE
    /\ IF aws_initialized THEN UNCHANGED <<isInit, curl_inits>> ELSE InitGlobalState

\* Aws::ShutdownAPI calls CleanupStaticState of the factory, whether the SDK
\* was initialised or not; a curl_global_cleanup too many does nothing.
FinalizeAwsSdk ==
    /\ aws_initialized' = FALSE
    /\ curl_inits' = IF curl_inits > 0 THEN curl_inits - 1 ELSE 0
    /\ UNCHANGED isInit

\* The SDK and curl may be used.
SdkReady == aws_initialized /\ curl_inits > 0

=============================================================================
