\* One correction at a time, with a second row to open an editor on.
CONSTANTS
    None = None
    Slugs = {s1, s2}
    Urls = {d1}
    Calls = {q1}
SPECIFICATION Spec
PROPERTY RefusalsAreStated
