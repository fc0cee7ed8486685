--------------------------- MODULE ServiceManager ---------------------------
(***************************************************************************)
(* The ServiceManager: publishing, finding and terminating one type of     *)
(* service.  terminate() keeps the mutex while the service stops, so what  *)
(* happens in between is left to the module that composes the manager with *)
(* the service.                                                            *)
(***************************************************************************)

VARIABLES
    m_services,         \* the service is published
    m_services_guard    \* "free", or "held" by a call of terminate()

managerVars == <<m_services, m_services_guard>>

ManagerTypeOK ==
    /\ m_services \in BOOLEAN
    /\ m_services_guard \in {"free", "held"}

ManagerInit == m_services = FALSE /\ m_services_guard = "free"

\* std::lock_guard lock { m_services_guard }: who finds it held waits.
ManagerFree == m_services_guard = "free"

\* publish throws if the service is there; else init(), which may not ask the manager.
PublishService ==
    /\ ManagerFree /\ ~m_services
    /\ m_services' = TRUE
    /\ UNCHANGED m_services_guard

\* terminate<T>() up to the call of stop(); it returns if there is no service.
\* terminate() does the same for every service.
BeginTerminate_erased_first ==
    /\ ManagerFree /\ m_services
    /\ m_services' = FALSE
    /\ m_services_guard' = "held"
BeginTerminate ==
    /\ ManagerFree /\ m_services
    /\ m_services_guard' = "held"
    /\ UNCHANGED m_services

\* stop() has returned: if terminate() has called it, the service is erased.
StopReturned ==
    /\ m_services' = (m_services /\ ManagerFree)
    /\ m_services_guard' = "free"
=============================================================================
