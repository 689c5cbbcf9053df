---------------------------- MODULE BrowserTools ----------------------------
(***************************************************************************)
(* tools/*.py: the order in which each tool looks its instance up, takes a *)
(* lock, asks for modals, resolves its page and acts.  A tool is a set of  *)
(* paths, one for each way through its body that does not fail; a path is  *)
(* a sequence of steps.  What a step does, where it can fail and what a    *)
(* failure leaves to clean up is in ToolCalls.                             *)
(***************************************************************************)
EXTENDS Sequences

\* Steps that run without giving up the event loop ...
SyncSteps == {
  "validate",  \* arguments or a result are checked
  "refuse",    \* the tool always reports an error
  "lookup",    \* mgr.get(), which starts the close of a crashed instance
  "guard",     \* assert_no_modal()
  "frame",     \* target_frame()
  "mark",      \* mark_operation_started()
  "pin",       \* DownloadRegistry.pin()
  "consume",   \* consume_modal_state()
  "arm",       \* ActionObserver.arm()
  "select",    \* set_active_page() of a tab the call has opened
  "unlock"}    \* the end of `async with lock_for()` before the end of the body
\* ... and steps that are awaited.
LockSteps    == {"lock", "modalLock"}
BrowserSteps == {
  "page",      \* target_page(): opens a page if there is none, awaits its headers
  "tab",       \* context.new_page()
  "headers",   \* ensure_page_headers()
  "read",      \* Playwright calls that change nothing
  "settle",    \* a wait whose failure is suppressed
  "input",     \* Playwright calls that change the page or the context
  "press"}     \* the pointer calls between mouse.down() and mouse.up()
ServerSteps == {
  "launch",    \* InstanceManager.create()
  "destroy",   \* InstanceManager.destroy()
  "write"}     \* a file of the server is written
WaitSteps == {
  "observe",   \* ActionObserver.wait() for an event
  "expect"}    \* ActionObserver.wait() for an element or a text
CleanupSteps == {
  "release",   \* _release_drag_button()
  "closeTab",  \* page.close() of a temporary tab, on every way out
  "discardTab",\* page.close() of a new tab, on failure only
  "abandon"}   \* create() waits for the launch it has cancelled
Steps == SyncSteps \cup LockSteps \cup BrowserSteps \cup ServerSteps \cup WaitSteps \cup CleanupSteps

-----------------------------------------------------------------------------
(* Building blocks *)

P ++ Q == {p \o q : p \in P, q \in Q}

Always(p)     == {p}
Sometimes(p)  == {<<>>, p}
OnceOrMore(p) == {p, p \o p}
ZeroOrMore(p) == {<<>>, p, p \o p}

\* Most tools: the instance is live, nobody else acts on it, no modal is
\* open, the page is known.
OnPage  == Always(<<"lookup", "lock", "guard", "page", "lookup">>)
InFrame == OnPage ++ Always(<<"frame">>)

\* run_observed_action(): the action alone, which may then wait for the page
\* itself, or between the listeners and the wait for what it should cause.
Observed(action, afterwards) ==
  (action ++ afterwards) \cup
  (Always(<<"arm">>) ++ action ++ {<<"observe">>, <<"expect">>})

\* resolve_ref() awaits the element's attachment.
resolve_ref == Always(<<"read">>)
\* ... in the main frame and then in the other frames.
resolve_ref_in_any_frame == OnceOrMore(<<"read">>)

-----------------------------------------------------------------------------
(* tools/interaction.py *)

browser_click ==
  Always(<<"validate">>) ++ InFrame ++ resolve_ref ++ Observed({<<"input">>}, Always(<<>>))
browser_type ==
  InFrame ++ resolve_ref ++ Observed(OnceOrMore(<<"input">>), Sometimes(<<"read">>))
\* Fields are filled in order, of a list that may be empty; a field that is refused leaves
\* the earlier ones filled.
fill_form_fields == ZeroOrMore(<<"validate", "read", "validate", "input">>)
browser_fill_form     == InFrame ++ Observed(fill_form_fields, Always(<<>>))
browser_select_option == InFrame ++ resolve_ref ++ Observed({<<"input">>}, Always(<<>>))
browser_hover         == InFrame ++ resolve_ref ++ Observed({<<"input">>}, Always(<<>>))
browser_drag          == InFrame ++ resolve_ref ++ resolve_ref ++ Observed({<<"input">>}, Always(<<>>))
browser_press_key     == OnPage ++ Observed({<<"input">>}, Sometimes(<<"read">>))

\* The two recovery tools work under the modal lock while an action that is
\* blocked by the modal holds the other one.
OnModal ==
  Always(<<"lookup", "modalLock">>) ++ Sometimes(<<"page", "lookup">>) ++ Always(<<"consume", "validate", "mark">>)
browser_file_upload   == OnModal ++ Sometimes(<<"input">>)
browser_handle_dialog == OnModal ++ Always(<<"input", "settle">>)

-----------------------------------------------------------------------------
(* tools/mouse.py *)

browser_mouse_click_xy ==
  OnPage ++ Always(<<"validate">>) ++ Observed({<<"input">>}, Sometimes(<<"read">>))
browser_mouse_move_xy == OnPage ++ Always(<<"input">>)
browser_mouse_down    == OnPage ++ Always(<<"validate", "input">>)
browser_mouse_up      == OnPage ++ Always(<<"validate", "input">>)
\* The button goes down within "press" and up within "release".
browser_mouse_drag_xy ==
  OnPage ++ Observed({<<"input", "press", "release">>}, Always(<<"read">>))
browser_mouse_wheel ==
  Always(<<"validate">>) ++ OnPage ++ Observed({<<"input">>}, Always(<<>>))

-----------------------------------------------------------------------------
(* tools/navigation.py, tools/code_execution.py *)

\* goto(), then the load event and the title, or only the title of a download.
browser_navigate      == OnPage ++ Always(<<"input", "read">>) ++ Sometimes(<<"read">>)
browser_navigate_back == OnPage ++ Always(<<"input">>)
browser_wait_for      == Always(<<"validate">>) ++ InFrame ++ OnceOrMore(<<"read">>)
browser_evaluate == Always(<<"validate">>) ++ InFrame ++ Sometimes(<<"read">>) ++ Always(<<"input">>)
\* The snippet may do anything to the page and its context.
browser_run_code == OnPage ++ Always(<<"input">>)

-----------------------------------------------------------------------------
(* tools/verification.py: each ends with the comparison *)

browser_verify_element_visible ==
  InFrame ++ resolve_ref_in_any_frame ++ Always(<<"read", "validate">>)
browser_verify_list_visible ==
  Always(<<"validate">>) ++ InFrame ++ resolve_ref_in_any_frame ++ OnceOrMore(<<"read", "validate">>)
browser_verify_text_visible ==
  InFrame ++ OnceOrMore(<<"read">>) ++ Always(<<"validate">>)
browser_verify_value ==
  Always(<<"validate">>) ++ InFrame ++ resolve_ref_in_any_frame ++ Always(<<"validate", "read", "validate">>)

-----------------------------------------------------------------------------
(* tools/inspection.py *)

\* The page and the frame are looked up again after the lock has been given back.
browser_snapshot == InFrame ++ Always(<<"read", "unlock", "lookup", "validate">>)
\* The image is written after the lock has been given back.
browser_screenshot ==
  Always(<<"validate">>) ++ OnPage ++ Always(<<"read", "unlock">>) ++ Sometimes(<<"write">>)
\* Captured events are read without a lock; a page of them may be written to a file.
event_result == Sometimes(<<"write">>)
browser_console_messages == Always(<<"validate", "lookup", "mark", "validate">>) ++ event_result
browser_network_requests == Always(<<"validate", "lookup", "mark", "validate">>) ++ event_result

-----------------------------------------------------------------------------
(* tools/cookies.py *)

\* A temporary tab visits the origin; it is closed on every way out.
storage_in_origin ==
  Always(<<"tab", "lookup", "mark", "headers", "input", "input", "validate", "closeTab">>)
browser_get_cookies   == Always(<<"lookup", "lock", "read">>)
browser_set_cookies   ==
  Always(<<"lookup", "lock">>) ++ Sometimes(<<"page", "lookup">>) ++ Always(<<"validate", "input">>)
browser_clear_cookies == Always(<<"lookup", "lock", "input">>)
browser_get_local_storage == Always(<<"lookup", "lock", "guard">>) ++ storage_in_origin
browser_set_local_storage == Always(<<"lookup", "lock", "guard">>) ++ storage_in_origin
browser_clear_local_storage ==
  Always(<<"validate", "lookup", "lock", "guard">>) ++ (Always(<<"page", "lookup", "input">>) \cup storage_in_origin)

-----------------------------------------------------------------------------
(* tools/utility.py, tools/page.py; the tabs themselves are in PageSelection *)

browser_resize   == OnPage ++ Always(<<"input">>)
\* Always refused, once the instance has been looked up.
browser_pdf_save == Always(<<"lookup", "refuse">>)
browser_generate_locator ==
  Always(<<"validate">>) ++ InFrame ++ Sometimes(<<"read">>) ++ Always(<<"unlock", "lookup", "validate">>)
tabs_list   == Always(<<"validate">>)
\* The new tab belongs to the call until it has been selected.
tabs_new    ==
  Always(<<"guard", "tab", "lookup", "mark", "headers">>) ++ Sometimes(<<"input">>) ++
  Always(<<"validate", "lookup", "select">>)
tabs_close  == Always(<<"validate", "page", "lookup", "mark", "input">>) ++ Sometimes(<<"lookup">>)
tabs_select == Always(<<"validate", "mark", "input", "validate", "lookup">>)
browser_tabs ==
  Always(<<"validate", "lookup", "lock">>) ++ (tabs_list \cup tabs_new \cup tabs_close \cup tabs_select)
browser_frames == Always(<<"lookup", "lock", "page", "lookup", "frame">>)
browser_close  ==
  Always(<<"lookup", "lock">>) ++
  (Always(<<>>) \cup (Always(<<"page", "lookup", "validate", "input">>) ++ Sometimes(<<"lookup">>)))

-----------------------------------------------------------------------------
(* tools/downloads.py, tools/lifecycle.py *)

browser_downloads     == Always(<<"lookup", "validate">>)
browser_download_save == Always(<<"lookup", "lock", "pin", "mark", "write">>)
browser_create_instance  == Always(<<"validate", "launch">>)
browser_destroy_instance == Always(<<"destroy">>)
browser_list_instances   == Always(<<>>)
browser_health           == Always(<<>>)

-----------------------------------------------------------------------------
(* register_all() *)

Tools == [
  browser_click |-> browser_click,
  browser_type |-> browser_type,
  browser_fill_form |-> browser_fill_form,
  browser_select_option |-> browser_select_option,
  browser_hover |-> browser_hover,
  browser_drag |-> browser_drag,
  browser_press_key |-> browser_press_key,
  browser_file_upload |-> browser_file_upload,
  browser_handle_dialog |-> browser_handle_dialog,
  browser_mouse_click_xy |-> browser_mouse_click_xy,
  browser_mouse_move_xy |-> browser_mouse_move_xy,
  browser_mouse_down |-> browser_mouse_down,
  browser_mouse_up |-> browser_mouse_up,
  browser_mouse_drag_xy |-> browser_mouse_drag_xy,
  browser_mouse_wheel |-> browser_mouse_wheel,
  browser_navigate |-> browser_navigate,
  browser_navigate_back |-> browser_navigate_back,
  browser_wait_for |-> browser_wait_for,
  browser_evaluate |-> browser_evaluate,
  browser_run_code |-> browser_run_code,
  browser_verify_element_visible |-> browser_verify_element_visible,
  browser_verify_list_visible |-> browser_verify_list_visible,
  browser_verify_text_visible |-> browser_verify_text_visible,
  browser_verify_value |-> browser_verify_value,
  browser_snapshot |-> browser_snapshot,
  browser_screenshot |-> browser_screenshot,
  browser_console_messages |-> browser_console_messages,
  browser_network_requests |-> browser_network_requests,
  browser_get_cookies |-> browser_get_cookies,
  browser_set_cookies |-> browser_set_cookies,
  browser_clear_cookies |-> browser_clear_cookies,
  browser_get_local_storage |-> browser_get_local_storage,
  browser_set_local_storage |-> browser_set_local_storage,
  browser_clear_local_storage |-> browser_clear_local_storage,
  browser_resize |-> browser_resize,
  browser_pdf_save |-> browser_pdf_save,
  browser_generate_locator |-> browser_generate_locator,
  browser_tabs |-> browser_tabs,
  browser_frames |-> browser_frames,
  browser_close |-> browser_close,
  browser_downloads |-> browser_downloads,
  browser_download_save |-> browser_download_save,
  browser_create_instance |-> browser_create_instance,
  browser_destroy_instance |-> browser_destroy_instance,
  browser_list_instances |-> browser_list_instances,
  browser_health |-> browser_health]
=============================================================================
